---- MODULE Spec2Model ----
(***************************************************************************)
(* starstruct: conversion of Go structs to Starlark string dictionaries    *)
(* (ToStarlark, the encoder) and back (FromStarlark, the decoder).         *)
(*                                                                         *)
(* The encoder is the one of src/unnamed/part_004 lines 1-362 (encoder     *)
(* type with MaxToErrors); the decoder is the one of src/decode.go lines   *)
(* 469-1107 (decoder type with recordErr).  Go strings are sequences of    *)
(* one-character strings, so that strings.Cut, strings.Split and           *)
(* strings.ToLower are computed and not assumed.                           *)
(***************************************************************************)
EXTENDS Integers, Sequences, FiniteSets, TLC

(***************************************************************************)
(* Bounds of the model.                                                    *)
(***************************************************************************)
\* largest error cap passed to MaxToErrors / MaxFromErrors
MaxCap == 3
\* largest number of keys the Starlark dictionary holds before a call
MaxKeys == 2
\* number of ToStarlark / FromStarlark calls in one behaviour
MaxCalls == 2
\* largest number of records, and of dictionaries, held by address before
\* a call that is followed step by step
MaxNodes == 2
\* number of frames the stack of a goroutine holds: a call that needs one
\* more ends the program with "fatal error: stack overflow"
MaxStack == 4
\* The numbers of the model fit the 32 bits of the integers of TLC: the
\* 64-bit integer kinds have Bits64 bits, a float64 has Mant64 bits of
\* mantissa (53 in Go) and a float32 Mant32 bits (24 in Go).  The order
\* 8 < Mant32 < Mant64 < Bits64 - 1 of the real widths is kept.
Bits64 == 16
Mant64 == 12
Mant32 == 10

(***************************************************************************)
(* Strings.                                                                *)
(***************************************************************************)
Upper == <<"A","B","C","D","E","F","G","H","I","J","K","L","M",
           "N","O","P","Q","R","S","T","U","V","W","X","Y","Z">>
Lower == <<"a","b","c","d","e","f","g","h","i","j","k","l","m",
           "n","o","p","q","r","s","t","u","v","w","x","y","z">>

\* unicode.ToLower on one character
ToLowerChar(c) ==
  IF \E i \in 1..Len(Upper) : Upper[i] = c
  THEN Lower[CHOOSE i \in 1..Len(Upper) : Upper[i] = c]
  ELSE c

\* strings.ToLower
ToLower(s) == [i \in 1..Len(s) |-> ToLowerChar(s[i])]

\* strings.Index(s, sep) for a one-character separator; 0 when absent
IndexOf(s, sep) ==
  IF \E i \in 1..Len(s) : s[i] = sep
  THEN CHOOSE i \in 1..Len(s) : s[i] = sep /\ \A j \in 1..(i-1) : s[j] # sep
  ELSE 0

\* strings.Cut(s, sep): <<before, after>>; <<s, "">> when sep is absent
Cut(s, sep) ==
  LET i == IndexOf(s, sep) IN
  IF i = 0 THEN <<s, <<>>>>
  ELSE <<SubSeq(s, 1, i-1), SubSeq(s, i+1, Len(s))>>

\* strings.Split(s, sep): the sequence of the pieces between separators
RECURSIVE Split(_, _)
Split(s, sep) ==
  LET i == IndexOf(s, sep) IN
  IF i = 0 THEN <<s>>
  ELSE <<SubSeq(s, 1, i-1)>> \o Split(SubSeq(s, i+1, Len(s)), sep)

Digits == <<"0","1","2","3","4","5","6","7","8","9">>

\* fmt's %d for the small indexes of the model
RECURSIVE FmtInt(_)
FmtInt(i) ==
  IF i < 0 THEN <<"-">> \o FmtInt(0 - i)
  ELSE IF i < 10 THEN <<Digits[i+1]>>
  ELSE FmtInt(i \div 10) \o <<Digits[(i % 10) + 1]>>

\* the character of a byte and the byte of a character (ASCII letters and
\* digits; "?" stands for every other byte)
ByteChar(n) ==
  IF n \in 97..122 THEN Lower[n - 96]
  ELSE IF n \in 65..90 THEN Upper[n - 64]
  ELSE IF n \in 48..57 THEN Digits[n - 47]
  ELSE "?"
CharByte(c) ==
  IF \E n \in 48..122 : ByteChar(n) = c /\ c # "?"
  THEN CHOOSE n \in 48..122 : ByteChar(n) = c
  ELSE 63

\* fmt.Sprintf("%s[%d]", path, i)
IndexPath(path, i) == path \o <<"[">> \o FmtInt(i) \o <<"]">>

\* the path of a field: parent path, a dot, the field's name
FieldPath(path, name) ==
  IF name # <<>>
  THEN (IF path # <<>> THEN path \o <<".">> ELSE path) \o name
  ELSE path


(***************************************************************************)
(* Go types (reflect.Type).  kind is the reflect.Kind, elem the element    *)
(* type(s) of a pointer, slice or map (<<key, value>> for a map), name     *)
(* the name of a struct type.                                              *)
(***************************************************************************)
TBool == [kind |-> "bool", elem |-> <<>>, name |-> ""]
TInt8 == [kind |-> "int8", elem |-> <<>>, name |-> ""]
TUint8 == [kind |-> "uint8", elem |-> <<>>, name |-> ""]
TInt64 == [kind |-> "int64", elem |-> <<>>, name |-> ""]
TUint64 == [kind |-> "uint64", elem |-> <<>>, name |-> ""]
TFloat32 == [kind |-> "float32", elem |-> <<>>, name |-> ""]
TFloat64 == [kind |-> "float64", elem |-> <<>>, name |-> ""]
TString == [kind |-> "string", elem |-> <<>>, name |-> ""]
\* time.Duration, a named int64 (the model counts it in seconds)
TDur == [kind |-> "int64", elem |-> <<>>, name |-> "Duration"]
\* type Level int8, a named integer type
TLevel == [kind |-> "int8", elem |-> <<>>, name |-> "Level"]
TChan == [kind |-> "chan", elem |-> <<>>, name |-> ""]
TFunc == [kind |-> "func", elem |-> <<>>, name |-> ""]
TPtr(t) == [kind |-> "ptr", elem |-> <<t>>, name |-> ""]
TSlice(t) == [kind |-> "slice", elem |-> <<t>>, name |-> ""]
TMap(k, v) == [kind |-> "map", elem |-> <<k, v>>, name |-> ""]
TStruct(n) == [kind |-> "struct", elem |-> <<>>, name |-> n]

\* reflect.StructField: Name, the value of the `starlark` key of the struct
\* tag, Anonymous (embedded) and Type
Fld(name, tag, anon, typ) ==
  [Name |-> name, Tag |-> tag, Anonymous |-> anon, Type |-> typ]

\* The struct types of the model.
\*   Errs  { F chan; I int8; B **bool; Ch chan; Z string }
\*   Over  { B bool; I int8 `Nb`; Nb *int8; Sl []int8; M map[string]bool;
\*           Ig string `-`; u bool; G chan `-` }
\*   In    { X int8; Y string }
\*   Sib   { W bool }
\*   Emb   { *In; Sib; P *In `pn` }
\*   Nest  { In `in`; *Sib `sb` }
\*   Flat  { Sib; K int8 }
\*   Seq   { P *int8; PP **bool; Pc *chan; Sl []int8; N int8; Ps *[]string;
\*           M map[string]bool; Mp *map[int8]bool; Q *In }
\*   Nums  { I8 int8; U8 uint8; I64 int64; U64 uint64; F32 float32;
\*           F64 float64; Fp *float64; Ip *int8 }
\*   Cust  { D1 time.Duration; D2 *time.Duration; Ch chan; N int8;
\*           D3 time.Duration `d3,asint`;
\*           Ds []time.Duration `ds,aslist,asint`; S string }
\*   Trip  { B bool; S string; By []byte; O *int8; L []int8;
\*           T []int8 `t,astuple`; A []int8 `a,asset`; M map[string]bool;
\*           Q *In; Ps *[]int8; Sib }
\*   Deep  { A [][]string `a,astuple,asset,asbytes`; C [][]string;
\*           D [][]string `d,foo,astuple`;
\*           E *[]*[]string `e,asset,astuple,asbytes`;
\*           F [][][]string `f,aslist,asset,astuple`; G []string `g,asbytes`;
\*           H [][]byte `h,astuple,asstring`; B [][]string `b,asset` }
\*   Keys  { Pc *chan int; M map[chan int]bool; S map[string]bool;
\*           K map[In]bool }
\*   Pan   { A int8; L Level; *In; Z string }
\*   Node  { V int8; Next *Node }
StructFields(n) ==
  CASE n = "Errs" ->
         << Fld(<<"F">>, <<>>, FALSE, TChan),
            Fld(<<"I">>, <<>>, FALSE, TInt8),
            Fld(<<"B">>, <<>>, FALSE, TPtr(TPtr(TBool))),
            Fld(<<"C","h">>, <<>>, FALSE, TChan),
            Fld(<<"Z">>, <<>>, FALSE, TString) >>
    [] n = "Over" ->
         << Fld(<<"B">>, <<>>, FALSE, TBool),
            Fld(<<"I">>, <<"N","b">>, FALSE, TInt8),
            Fld(<<"N","b">>, <<>>, FALSE, TPtr(TInt8)),
            Fld(<<"S","l">>, <<>>, FALSE, TSlice(TInt8)),
            Fld(<<"M">>, <<>>, FALSE, TMap(TString, TBool)),
            Fld(<<"I","g">>, <<"-">>, FALSE, TString),
            Fld(<<"u">>, <<>>, FALSE, TBool),
            Fld(<<"G">>, <<"-",",","a","s","s","e","t">>, FALSE, TChan) >>
    [] n = "In" ->
         << Fld(<<"X">>, <<>>, FALSE, TInt8),
            Fld(<<"Y">>, <<>>, FALSE, TString) >>
    [] n = "Sib" ->
         << Fld(<<"W">>, <<>>, FALSE, TBool) >>
    [] n = "Emb" ->
         << Fld(<<"I","n">>, <<>>, TRUE, TPtr(TStruct("In"))),
            Fld(<<"S","i","b">>, <<>>, TRUE, TStruct("Sib")),
            Fld(<<"P">>, <<"p","n">>, FALSE, TPtr(TStruct("In"))) >>
    [] n = "Nest" ->
         << Fld(<<"I","n">>, <<"i","n">>, TRUE, TStruct("In")),
            Fld(<<"S","i","b">>, <<"s","b">>, TRUE, TPtr(TStruct("Sib"))) >>
    [] n = "Flat" ->
         << Fld(<<"S","i","b">>, <<>>, TRUE, TStruct("Sib")),
            Fld(<<"K">>, <<>>, FALSE, TInt8) >>
    [] n = "Seq" ->
         << Fld(<<"P">>, <<>>, FALSE, TPtr(TInt8)),
            Fld(<<"P","P">>, <<>>, FALSE, TPtr(TPtr(TBool))),
            Fld(<<"P","c">>, <<>>, FALSE, TPtr(TChan)),
            Fld(<<"S","l">>, <<>>, FALSE, TSlice(TInt8)),
            Fld(<<"N">>, <<>>, FALSE, TInt8),
            Fld(<<"P","s">>, <<>>, FALSE, TPtr(TSlice(TString))),
            Fld(<<"M">>, <<>>, FALSE, TMap(TString, TBool)),
            Fld(<<"M","p">>, <<>>, FALSE, TPtr(TMap(TInt8, TBool))),
            Fld(<<"Q">>, <<>>, FALSE, TPtr(TStruct("In"))) >>
    [] n = "Nums" ->
         << Fld(<<"I","8">>, <<>>, FALSE, TInt8),
            Fld(<<"U","8">>, <<>>, FALSE, TUint8),
            Fld(<<"I","6","4">>, <<>>, FALSE, TInt64),
            Fld(<<"U","6","4">>, <<>>, FALSE, TUint64),
            Fld(<<"F","3","2">>, <<>>, FALSE, TFloat32),
            Fld(<<"F","6","4">>, <<>>, FALSE, TFloat64),
            Fld(<<"F","p">>, <<>>, FALSE, TPtr(TFloat64)),
            Fld(<<"I","p">>, <<>>, FALSE, TPtr(TInt8)) >>
    [] n = "Cust" ->
         << Fld(<<"D","1">>, <<>>, FALSE, TDur),
            Fld(<<"D","2">>, <<>>, FALSE, TPtr(TDur)),
            Fld(<<"C","h">>, <<>>, FALSE, TChan),
            Fld(<<"N">>, <<>>, FALSE, TInt8),
            Fld(<<"D","3">>, <<"d","3",",","a","s","i","n","t">>, FALSE, TDur),
            Fld(<<"D","s">>, <<"d","s",",","a","s","l","i","s","t",",","a","s","i","n","t">>,
                FALSE, TSlice(TDur)),
            Fld(<<"S">>, <<>>, FALSE, TString) >>
    [] n = "Trip" ->
         << Fld(<<"B">>, <<>>, FALSE, TBool),
            Fld(<<"S">>, <<>>, FALSE, TString),
            Fld(<<"B","y">>, <<>>, FALSE, TSlice(TUint8)),
            Fld(<<"O">>, <<>>, FALSE, TPtr(TInt8)),
            Fld(<<"L">>, <<>>, FALSE, TSlice(TInt8)),
            Fld(<<"T">>, <<"t",",","a","s","t","u","p","l","e">>, FALSE,
                TSlice(TInt8)),
            Fld(<<"A">>, <<"a",",","a","s","s","e","t">>, FALSE, TSlice(TInt8)),
            Fld(<<"M">>, <<>>, FALSE, TMap(TString, TBool)),
            Fld(<<"Q">>, <<>>, FALSE, TPtr(TStruct("In"))),
            Fld(<<"P","s">>, <<>>, FALSE, TPtr(TSlice(TInt8))),
            Fld(<<"S","i","b">>, <<>>, TRUE, TStruct("Sib")) >>
    [] n = "Deep" ->
         << Fld(<<"A">>, <<"a",",","a","s","t","u","p","l","e",",","a","s","s","e","t",",","a","s","b","y","t","e","s">>,
                FALSE, TSlice(TSlice(TString))),
            Fld(<<"C">>, <<>>, FALSE, TSlice(TSlice(TString))),
            Fld(<<"D">>, <<"d",",","f","o","o",",","a","s","t","u","p","l","e">>, FALSE,
                TSlice(TSlice(TString))),
            Fld(<<"E">>, <<"e",",","a","s","s","e","t",",","a","s","t","u","p","l","e",",","a","s","b","y","t","e","s">>,
                FALSE, TPtr(TSlice(TPtr(TSlice(TString))))),
            Fld(<<"F">>, <<"f",",","a","s","l","i","s","t",",","a","s","s","e","t",",","a","s","t","u","p","l","e">>,
                FALSE, TSlice(TSlice(TSlice(TString)))),
            Fld(<<"G">>, <<"g",",","a","s","b","y","t","e","s">>, FALSE, TSlice(TString)),
            Fld(<<"H">>, <<"h",",","a","s","t","u","p","l","e",",","a","s","s","t","r","i","n","g">>, FALSE,
                TSlice(TSlice(TUint8))),
            Fld(<<"B">>, <<"b",",","a","s","s","e","t">>, FALSE, TSlice(TSlice(TString))) >>
    [] n = "Keys" ->
         << Fld(<<"P","c">>, <<>>, FALSE, TPtr(TChan)),
            Fld(<<"M">>, <<>>, FALSE, TMap(TChan, TBool)),
            Fld(<<"S">>, <<>>, FALSE, TMap(TString, TBool)),
            Fld(<<"K">>, <<>>, FALSE, TMap(TStruct("In"), TBool)) >>
    [] n = "Pan" ->
         << Fld(<<"A">>, <<>>, FALSE, TInt8),
            Fld(<<"L">>, <<>>, FALSE, TLevel),
            Fld(<<"I","n">>, <<>>, TRUE, TPtr(TStruct("In"))),
            Fld(<<"Z">>, <<>>, FALSE, TString) >>
    [] n = "Node" ->
         << Fld(<<"V">>, <<>>, FALSE, TInt8),
            Fld(<<"N","e","x","t">>, <<>>, FALSE, TPtr(TStruct("Node"))) >>
    [] OTHER -> << >>

\* reflect.Type.NumField and reflect.Type.Field of a struct type
NumField(t) == Len(StructFields(t.name))
Field(t, i) == StructFields(t.name)[i]

\* reflect.StructField.IsExported: the name starts with an upper-case letter
IsExported(f) == f.Name # <<>> /\ \E i \in 1..Len(Upper) : Upper[i] = f.Name[1]

\* the kinds from reflect.Int to reflect.Uintptr, and the two float kinds
NumKinds == {"int8", "int64", "uint8", "uint64"}
FloatKinds == {"float32", "float64"}

isStructPtrType(t) == t.kind = "ptr" /\ t.elem[1].kind = "struct"
isStructOrPtrType(t) == t.kind = "struct" \/ isStructPtrType(t)
isByteSliceType(t) == t.kind = "slice" /\ t.elem[1].kind = "uint8"
isSetMapType(t) == t.kind = "map" /\ t.elem[2].kind = "bool"

(***************************************************************************)
(* Go values (reflect.Value).  typ is the type; nil tells a nil pointer,   *)
(* slice, map, chan or func; n is the number of a bool (0, 1) or integer;  *)
(* t the text of a string; s the pointee of a pointer (one element), the   *)
(* elements of a slice or the fields of a struct; c the capacity of a      *)
(* slice; m the entries of a map.  A float has in n its whole part and in  *)
(* t its class: Fin (it is the integer n), Half (it is n + 1/2), NaN or    *)
(* Inf (n is the sign).                                                    *)
(***************************************************************************)
GV(typ, nil, n, t, s, c, m) ==
  [typ |-> typ, nil |-> nil, n |-> n, t |-> t, s |-> s, c |-> c, m |-> m]

GoBool(b) == GV(TBool, FALSE, IF b THEN 1 ELSE 0, <<>>, <<>>, 0, {})
GoInt8(i) == GV(TInt8, FALSE, i, <<>>, <<>>, 0, {})
GoUint8(i) == GV(TUint8, FALSE, i, <<>>, <<>>, 0, {})
GoInt(typ, i) == GV(typ, FALSE, i, <<>>, <<>>, 0, {})
Fin == <<>>
Half == <<".","5">>
NaN == <<"N","a","N">>
Inf == <<"I","n","f">>
GoFloat(typ, n, class) == GV(typ, FALSE, n, class, <<>>, 0, {})
GoString(t) == GV(TString, FALSE, 0, t, <<>>, 0, {})
GoNil(typ) == GV(typ, TRUE, 0, <<>>, <<>>, 0, {})
GoPtr(v) == GV(TPtr(v.typ), FALSE, 0, <<>>, <<v>>, 0, {})
GoSlice(et, elems, cap) == GV(TSlice(et), FALSE, 0, <<>>, elems, cap, {})
GoMap(kt, vt, entries) == GV(TMap(kt, vt), FALSE, 0, <<>>, <<>>, 0, entries)
GoChan == GV(TChan, FALSE, 0, <<>>, <<>>, 0, {})
\* a chan that n tells from the other chans (its address)
GoChanAt(n) == GV(TChan, FALSE, n, <<>>, <<>>, 0, {})
GoFunc == GV(TFunc, FALSE, 0, <<>>, <<>>, 0, {})
\* reflect.ValueOf(nil): the zero Value, of Kind Invalid
GoInvalid == GV([kind |-> "invalid", elem |-> <<>>, name |-> ""], TRUE, 0,
                <<>>, <<>>, 0, {})
GoStruct(n, fields) == GV(TStruct(n), FALSE, 0, <<>>, fields, 0, {})

NilKinds == {"ptr", "slice", "map", "chan", "func"}

\* reflect.Zero
RECURSIVE Zero(_)
Zero(typ) ==
  IF typ.kind \in NilKinds THEN GoNil(typ)
  ELSE IF typ.kind = "struct"
  THEN GoStruct(typ.name, [i \in 1..NumField(typ) |-> Zero(Field(typ, i).Type)])
  ELSE GV(typ, FALSE, 0, <<>>, <<>>, 0, {})

(***************************************************************************)
(* Starlark values.  k is the Starlark type; n the number of a Bool or     *)
(* Int; t the text of a String or Bytes; s the members of a List, Tuple or *)
(* Set in iteration order; d the entries of a Dict.  A Float has its whole *)
(* part in n and its class in t, as a Go float has.                        *)
(***************************************************************************)
EmptyDict == << >>
SV(k, n, t, s, d) == [k |-> k, n |-> n, t |-> t, s |-> s, d |-> d]

None == SV("NoneType", 0, <<>>, <<>>, EmptyDict)
StarBool(b) == SV("bool", IF b THEN 1 ELSE 0, <<>>, <<>>, EmptyDict)
StarInt(i) == SV("int", i, <<>>, <<>>, EmptyDict)
StarFloat(n, class) == SV("float", n, class, <<>>, EmptyDict)
StarString(t) == SV("string", 0, t, <<>>, EmptyDict)
StarBytes(t) == SV("bytes", 0, t, <<>>, EmptyDict)
StarList(s) == SV("list", 0, <<>>, s, EmptyDict)
StarTuple(s) == SV("tuple", 0, <<>>, s, EmptyDict)
StarSet(s) == SV("set", 0, <<>>, s, EmptyDict)
StarDict(d) == SV("dict", 0, <<>>, <<>>, d)

\* starlark.Value.Hash succeeds: lists, dicts and sets are not hashable, a
\* tuple is when its members are
RECURSIVE Hashable(_)
Hashable(v) ==
  CASE v.k \in {"list", "dict", "set"} -> FALSE
    [] v.k = "tuple" -> \A i \in 1..Len(v.s) : Hashable(v.s[i])
    [] OTHER -> TRUE

\* starlark.Set.Insert on a hashable value: a member already present is kept
SetInsert(set, v) ==
  IF \E i \in 1..Len(set.s) : set.s[i] = v THEN set
  ELSE [set EXCEPT !.s = Append(@, v)]

\* stringDictValue.Get, starlark.Dict.Get with a String key
DictHas(d, key) == key \in DOMAIN d
\* stringDictValue.SetKey, starlark.Dict.SetKey with a String key
SetKey(d, key, x) == [k \in (DOMAIN d) \cup {key} |-> IF k = key THEN x ELSE d[k]]


(***************************************************************************)
(* Errors and the trace of a call.                                         *)
(***************************************************************************)
\* *TypeError, *StarlarkContainerError (error.go): the operation and the path
TypeErr(op, path) == [kind |-> "TypeError", op |-> op, path |-> path]
ContainerErr(path) == [kind |-> "StarlarkContainerError", op |-> "to", path |-> path]
\* *CustomConvError (part_007:22): the operation and the path
CustomConvErr(op, path) == [kind |-> "CustomConvError", op |-> op, path |-> path]
\* errors.New("maximum number of errors reached")
ErrMax == [kind |-> "max", op |-> "", path |-> <<>>]

\* one step of a walk: a field is visited, a value is stored (in the
\* destination dictionary or in the struct), an error is collected
Ev(ev, path) == [ev |-> ev, path |-> path]

(***************************************************************************)
(* The encoder.  e is the encoder struct (errs, maxErrs) with the panic in *)
(* flight, if any ("tooManyErrs" or a run-time "reflect" panic), and the   *)
(* trace of the walk.                                                      *)
(***************************************************************************)
\* var e encoder, with the order in which this call ranges over maps
NewEncoder(order) ==
  [errs |-> <<>>, maxErrs |-> 0, panicked |-> "", log |-> <<>>,
   order |-> order, custom |-> FALSE]

\* MaxToErrors(max)
MaxToErrors(e, max) == [e EXCEPT !.maxErrs = max]

\* CustomToConverter(customFn), the option the tests pass to ToStarlark: the
\* encoder consults customFn
CustomToConverter(e) == [e EXCEPT !.custom = TRUE]

\* A variant of recordErr that appends the sentinel and lets the walk go on.
encoder_recordErr_noStop(e, err) ==
  IF e.maxErrs > 0 /\ Len(e.errs) = e.maxErrs
  THEN [e EXCEPT !.errs = Append(@, ErrMax),
                 !.log = Append(@, Ev("max", err.path))]
  ELSE [e EXCEPT !.errs = Append(@, err),
                 !.log = Append(@, Ev("err", err.path))]

\* encoder.recordErr (part_004:312)
encoder_recordErr(e, err) ==
  IF e.maxErrs > 0 /\ Len(e.errs) = e.maxErrs
  THEN [e EXCEPT !.errs = Append(@, ErrMax),
                 !.log = Append(@, Ev("max", err.path)),
                 !.panicked = "tooManyErrs"]
  ELSE [e EXCEPT !.errs = Append(@, err),
                 !.log = Append(@, Ev("err", err.path))]

recordTypeErr(e, path) == encoder_recordErr(e, TypeErr("to", path))
recordEmbeddedTypeErr(e, path) == encoder_recordErr(e, TypeErr("to", path))
recordStarContainerErr(e, path) == encoder_recordErr(e, ContainerErr(path))
recordCustomConvErr(e, path) == encoder_recordErr(e, CustomConvErr("to", path))

\* tagOpt.current, tagOpt.shift
current(t) == IF Len(t) > 0 THEN t[1] ELSE <<>>

\* A variant of shift that leaves the options where they are.
shift_stays(t) == t
shift(t) == IF Len(t) <= 1 THEN <<>> ELSE Tail(t)

asbytes == <<"a","s","b","y","t","e","s">>
asstring == <<"a","s","s","t","r","i","n","g">>
aslist == <<"a","s","l","i","s","t">>
astuple == <<"a","s","t","u","p","l","e">>
asset == <<"a","s","s","e","t">>
asint == <<"a","s","i","n","t">>

\* customFn of TestToStarlark_CustomConverter: a time.Duration becomes the
\* String of Duration.String (below a minute: the seconds and "s"), or the
\* Int of its seconds with the option asint; a *time.Duration is an error;
\* anything else is left alone (nil, nil)
customTo(path, gov, opts) ==
  CASE gov.typ = TDur ->
         [handled |-> TRUE, err |-> FALSE,
          sval |-> IF current(opts) = asint THEN StarInt(gov.n)
                   ELSE StarString(FmtInt(gov.n) \o <<"s">>)]
    [] gov.typ = TPtr(TDur) -> [handled |-> FALSE, err |-> TRUE, sval |-> None]
    [] OTHER -> [handled |-> FALSE, err |-> FALSE, sval |-> None]

\* the converter of the caller is consulted first: a value it returns is
\* the result, an error it returns is collected with the path of the field
\* and None is the result, and (nil, nil) leaves the value to the built-in
\* conversion
convertCustom(path, goVal0, opts, e) ==
  IF ~e.custom THEN [handled |-> FALSE, sval |-> None, e |-> e]
  ELSE LET consulted(h) ==
             IF h.err
             THEN [handled |-> TRUE, sval |-> None, e |-> recordCustomConvErr(e, path)]
             ELSE [handled |-> h.handled, sval |-> h.sval, e |-> e]
       IN consulted(customTo(path, goVal0, opts))

\* the rank of a map key, by which the keys of one map are ordered
KeyRank(k) ==
  IF k.typ.kind = "string"
  THEN (IF k.t = <<>> THEN 0
        ELSE CHOOSE i \in 1..Len(Lower) : Lower[i] = ToLowerChar(k.t[1]))
  ELSE IF k.typ.kind = "struct" THEN k.s[1].n
  ELSE k.n

\* fmt.Sprintf("%v", k) of a map key: the text of a string, the number of
\* an integer, the address of a chan (0x and its digits), the fields of a
\* struct between braces
RECURSIVE FmtKey(_)
RECURSIVE FmtFields(_, _)
FmtKey(k) ==
  IF k.typ.kind = "string" THEN k.t
  ELSE IF k.typ.kind = "chan" THEN <<"0","x">> \o FmtInt(k.n)
  ELSE IF k.typ.kind = "struct" THEN <<"{">> \o FmtFields(k.s, 1) \o <<"}">>
  ELSE FmtInt(k.n)
FmtFields(fields, i) ==
  IF i > Len(fields) THEN <<>>
  ELSE (IF i > 1 THEN <<" ">> ELSE <<>>) \o FmtKey(fields[i])
         \o FmtFields(fields, i + 1)

\* the entries of a map in the order reflect.MapIter yields them: Go leaves
\* the order open, order chooses among the two the model has
RECURSIVE MapRange(_, _)
MapRange(entries, order) ==
  IF entries = {} THEN <<>>
  ELSE LET first == CHOOSE x \in entries : \A y \in entries :
                      IF order = "up" THEN KeyRank(x.key) <= KeyRank(y.key)
                                      ELSE KeyRank(x.key) >= KeyRank(y.key)
       IN <<first>> \o MapRange(entries \ {first}, order)

\* if !fldTyp.IsExported() || nm == "-" { continue }   (walkStructEncode)
encodeSkips(fldTyp, nm) == ~IsExported(fldTyp) \/ nm = <<"-">>

RECURSIVE walkStructEncodeFrom(_, _, _, _, _)
RECURSIVE convertGoValue(_, _, _, _)
RECURSIVE convertElems(_, _, _, _, _, _, _)
RECURSIVE convertKeys(_, _, _, _, _, _)
RECURSIVE convertKeys_newSet(_, _, _, _, _, _)

\* A variant of toStarlarkValue that keeps the value a key already has.
toStarlarkValue_keepsFirst(path, dstName, goVal, dst, opts, e) ==
  LET store(r) ==
        IF r.e.panicked # "" THEN [dst |-> dst, e |-> r.e]
        ELSE [dst |-> IF DictHas(dst, dstName) THEN dst
                      ELSE SetKey(dst, dstName, r.sval),
              e |-> [r.e EXCEPT !.log = Append(@, Ev("write", path))]]
  IN store(convertGoValue(path, goVal, opts, e))

\* A variant of toStarlarkValue that stores nothing when the conversion
\* collected an error.
toStarlarkValue_skipsFailed(path, dstName, goVal, dst, opts, e) ==
  LET store(r) ==
        IF r.e.panicked # "" \/ Len(r.e.errs) > Len(e.errs)
        THEN [dst |-> dst, e |-> r.e]
        ELSE [dst |-> SetKey(dst, dstName, r.sval),
              e |-> [r.e EXCEPT !.log = Append(@, Ev("write", path))]]
  IN store(convertGoValue(path, goVal, opts, e))

\* encoder.toStarlarkValue: convert, then store under dstName
toStarlarkValue(path, dstName, goVal, dst, opts, e) ==
  LET store(r) ==
        IF r.e.panicked # "" THEN [dst |-> dst, e |-> r.e]
        ELSE [dst |-> SetKey(dst, dstName, r.sval),
              e |-> [r.e EXCEPT !.log = Append(@, Ev("write", path))]]
  IN store(convertGoValue(path, goVal, opts, e))

\* encoder.walkStructEncode: the loop over the fields, from field i on
walkStructEncodeFrom(i, path, strct, dst, e) ==
  IF e.panicked # "" THEN [dst |-> dst, e |-> e]
  ELSE IF strct.typ.kind # "struct"
  THEN \* reflect panics: NumField of non-struct type
       [dst |-> dst, e |-> [e EXCEPT !.panicked = "reflect",
                                     !.log = Append(@, Ev("panic", path))]]
  ELSE IF i > NumField(strct.typ) THEN [dst |-> dst, e |-> e]
  ELSE
    LET fldTyp == Field(strct.typ, i)
        cut == Cut(fldTyp.Tag, ",")
        nm == cut[1]
        rawOpts == cut[2]
        p == FieldPath(path, fldTyp.Name)
        fld == strct.s[i]
        e1 == [e EXCEPT !.log = Append(@, Ev("visit", p))]
    IN
    IF encodeSkips(fldTyp, nm)
    THEN walkStructEncodeFrom(i+1, path, strct, dst, e)
    ELSE IF nm = <<>> /\ fldTyp.Anonymous
    THEN IF ~isStructOrPtrType(fldTyp.Type)
         THEN walkStructEncodeFrom(i+1, path, strct, dst,
                                   recordEmbeddedTypeErr(e1, p))
         ELSE LET next(r) == walkStructEncodeFrom(i+1, path, strct, r.dst, r.e)
              IN next(walkStructEncodeFrom(1, p, fld, dst, e1))
    ELSE
      LET name == IF nm = <<>> THEN fldTyp.Name ELSE nm
          opts == IF rawOpts # <<>> THEN Split(rawOpts, ",") ELSE <<>>
          next(r) == walkStructEncodeFrom(i+1, path, strct, r.dst, r.e)
      IN next(toStarlarkValue(p, name, fld, dst, opts, e1))

walkStructEncode(path, strct, dst, e) ==
  walkStructEncodeFrom(1, path, strct, dst, e)

\* the loops of convertGoValue over the elements of a slice: acc is the List
\* or Tuple members so far, or the Set (shape = "set")
convertElems(i, path, goVal, opts, shape, acc, e) ==
  IF e.panicked # "" \/ i > Len(goVal.s) THEN [sval |-> acc, e |-> e]
  ELSE
    LET p == IndexPath(path, i - 1)
        next(r) ==
          IF r.e.panicked # "" THEN [sval |-> acc, e |-> r.e]
          ELSE IF shape = "set"
          THEN IF Hashable(r.sval)
               THEN convertElems(i+1, path, goVal, opts, shape,
                                 SetInsert(acc, r.sval), r.e)
               ELSE convertElems(i+1, path, goVal, opts, shape, acc,
                                 recordStarContainerErr(r.e, p))
          ELSE convertElems(i+1, path, goVal, opts, shape,
                            [acc EXCEPT !.s = Append(@, r.sval)], r.e)
    IN next(convertGoValue(p, goVal.s[i], shift(opts), e))

\* A variant of the loop over the entries of a map that makes a new Set for
\* every key: the Set holds the last key only.
convertKeys_newSet(i, path, entries, opts, acc, e) ==
  IF e.panicked # "" \/ i > Len(entries) THEN [sval |-> acc, e |-> e]
  ELSE IF ~entries[i].val
  THEN convertKeys_newSet(i+1, path, entries, opts, acc, e)
  ELSE
    LET k == entries[i].key
        p == path \o <<"[">> \o FmtKey(k) \o <<"]">>
        next(r) ==
          IF r.e.panicked # "" THEN [sval |-> acc, e |-> r.e]
          ELSE IF Hashable(r.sval)
          THEN convertKeys_newSet(i+1, path, entries, opts,
                                  SetInsert(StarSet(<<>>), r.sval), r.e)
          ELSE convertKeys_newSet(i+1, path, entries, opts, StarSet(<<>>),
                                  recordStarContainerErr(r.e, p))
    IN next(convertGoValue(p, k, shift(opts), e))

\* the loop of convertGoValue over the entries of a set-shaped map
convertKeys(i, path, entries, opts, acc, e) ==
  IF e.panicked # "" \/ i > Len(entries) THEN [sval |-> acc, e |-> e]
  ELSE IF ~entries[i].val
  THEN convertKeys(i+1, path, entries, opts, acc, e)
  ELSE
    LET k == entries[i].key
        p == path \o <<"[">> \o FmtKey(k) \o <<"]">>
        next(r) ==
          IF r.e.panicked # "" THEN [sval |-> acc, e |-> r.e]
          ELSE IF Hashable(r.sval)
          THEN convertKeys(i+1, path, entries, opts, SetInsert(acc, r.sval), r.e)
          ELSE convertKeys(i+1, path, entries, opts, acc,
                           recordStarContainerErr(r.e, p))
    IN next(convertGoValue(p, k, shift(opts), e))

\* A variant of the nil test that looks at pointers only.
isNilGoValue_pointersOnly(goVal0) ==
  goVal0.typ.kind = "ptr" /\ goVal0.typ.elem[1].kind # "ptr" /\ goVal0.nil

\* var isNil bool of convertGoValue: one level of indirection is allowed,
\* and a map or a slice can be nil as well
isNilGoValue(goVal0) ==
  LET unwrap == goVal0.typ.kind = "ptr" /\ goVal0.typ.elem[1].kind # "ptr"
      goVal == IF unwrap /\ ~goVal0.nil THEN goVal0.s[1] ELSE goVal0
  IN IF unwrap /\ goVal0.nil THEN TRUE
     ELSE IF goVal.typ.kind \in {"map", "slice"} THEN goVal.nil
     ELSE FALSE

\* encoder.convertGoValue
convertGoValue(path, goVal0, opts, e) ==
  LET goTyp == goVal0.typ
      unwrap == goTyp.kind = "ptr" /\ goTyp.elem[1].kind # "ptr"
      \* goVal.Elem(): the zero Value for a nil pointer
      goVal == IF unwrap /\ ~goVal0.nil THEN goVal0.s[1] ELSE goVal0
      isNil == isNilGoValue(goVal0)
      kind == goVal.typ.kind
      curOpt == current(opts)
      custom == convertCustom(path, goVal0, opts, e)
  IN
  IF custom.handled THEN [sval |-> custom.sval, e |-> custom.e]
  ELSE
  CASE isNil -> [sval |-> None, e |-> e]
    [] ~isNil /\ kind = "bool" -> [sval |-> StarBool(goVal.n = 1), e |-> e]
    [] ~isNil /\ kind \in FloatKinds ->
         [sval |-> StarFloat(goVal.n, goVal.t), e |-> e]
    [] ~isNil /\ kind \in NumKinds -> [sval |-> StarInt(goVal.n), e |-> e]
    [] ~isNil /\ kind = "string" ->
         [sval |-> IF curOpt = asbytes THEN StarBytes(goVal.t)
                   ELSE StarString(goVal.t), e |-> e]
    [] ~isNil /\ isByteSliceType(goVal.typ)
         /\ curOpt \notin {aslist, astuple, asset} ->
         LET bytes == [i \in 1..Len(goVal.s) |-> ByteChar(goVal.s[i].n)] IN
         [sval |-> IF curOpt = asstring THEN StarString(bytes)
                   ELSE StarBytes(bytes), e |-> e]
    [] ~isNil /\ kind = "slice"
         /\ ~(isByteSliceType(goVal.typ) /\ curOpt \notin {aslist, astuple, asset})
         /\ curOpt \notin {astuple, asset} ->
         convertElems(1, path, goVal, opts, "list", StarList(<<>>), e)
    [] ~isNil /\ kind = "slice" /\ curOpt = astuple ->
         convertElems(1, path, goVal, opts, "tuple", StarTuple(<<>>), e)
    [] ~isNil /\ kind = "slice" /\ curOpt = asset ->
         convertElems(1, path, goVal, opts, "set", StarSet(<<>>), e)
    [] ~isNil /\ isSetMapType(goVal.typ) ->
         convertKeys(1, path, MapRange(goVal.m, e.order), opts, StarSet(<<>>), e)
    [] ~isNil /\ kind = "struct" ->
         LET asDict(r) == [sval |-> StarDict(r.dst), e |-> r.e]
         IN asDict(walkStructEncode(path, goVal, EmptyDict, e))
    [] OTHER ->
         \* return None to avoid issues with invalid starlark values
         [sval |-> None, e |-> recordTypeErr(e, path)]


\* for strct.Kind() == reflect.Pointer { strct = strct.Elem() }: a nil pointer
\* is left as it is, its Elem is not a struct either
RECURSIVE Indirect(_)
Indirect(v) ==
  IF v.typ.kind = "ptr" /\ ~v.nil THEN Indirect(v.s[1]) ELSE v

\* ToStarlark (part_004:75) with the encoder e its options made
ToStarlarkWith(vals, dst, e) ==
  LET strct == Indirect(vals) IN
  IF strct.typ.kind # "struct"
  THEN [dst |-> dst, errs |-> <<>>, panic |-> "precondition", log |-> <<>>]
  ELSE
    LET encode(r) ==
          [dst |-> r.dst,
           errs |-> IF r.e.panicked \in {"", "tooManyErrs"} THEN r.e.errs ELSE <<>>,
           panic |-> IF r.e.panicked = "tooManyErrs" THEN "" ELSE r.e.panicked,
           log |-> r.e.log]
    IN encode(walkStructEncode(<<>>, strct, dst, e))

\* A variant of ToStarlark that encodes into an emptied destination.
ToStarlark_emptied(vals, dst, max, order) ==
  LET strct == Indirect(vals) IN
  IF strct.typ.kind # "struct"
  THEN [dst |-> dst, errs |-> <<>>, panic |-> "precondition", log |-> <<>>]
  ELSE
    LET encode(r) ==
          [dst |-> r.dst,
           errs |-> IF r.e.panicked \in {"", "tooManyErrs"} THEN r.e.errs ELSE <<>>,
           panic |-> IF r.e.panicked = "tooManyErrs" THEN "" ELSE r.e.panicked,
           log |-> r.e.log]
    IN encode(walkStructEncode(<<>>, strct, EmptyDict,
                               MaxToErrors(NewEncoder(order), max)))

\* ToStarlark (part_004:75) with encoder.encode: the returned error unwraps
\* to errs (nil when empty); panic is the panic that reaches the caller
ToStarlark(vals, dst, max, order) ==
  LET strct == Indirect(vals) IN
  IF strct.typ.kind # "struct"
  THEN [dst |-> dst, errs |-> <<>>, panic |-> "precondition", log |-> <<>>]
  ELSE
    LET encode(r) ==
          [dst |-> r.dst,
           errs |-> IF r.e.panicked \in {"", "tooManyErrs"} THEN r.e.errs ELSE <<>>,
           panic |-> IF r.e.panicked = "tooManyErrs" THEN "" ELSE r.e.panicked,
           log |-> r.e.log]
    IN encode(walkStructEncode(<<>>, strct, dst,
                               MaxToErrors(NewEncoder(order), max)))

(***************************************************************************)
(* The decoder (decode.go:469-1107).  In this version only                 *)
(* setFieldBytesOrString collects its error with recordErr; every other    *)
(* setField* function returns its error, fromStarlarkValue and             *)
(* walkStructDecode pass a returned error up (return didSet, err), and     *)
(* decoder.decode does not look at what walkStructDecode returns.  A       *)
(* result is the new value of the destination slot, didSet, err (an error  *)
(* is returned) and the decoder.                                           *)
(***************************************************************************)
\* var d decoder, with what this build makes of the conversion of a float
\* to an integer type that cannot hold it: Go leaves the result to the
\* implementation, conv chooses among truncation and saturation
NewDecoder(conv) ==
  [errs |-> <<>>, maxErrs |-> 0, panicked |-> "", log |-> <<>>, conv |-> conv,
   custom |-> FALSE]

\* MaxFromErrors(max), the option the tests pass to FromStarlark: it sets
\* the maxErrs field of the decoder, as MaxToErrors does for the encoder
MaxFromErrors(d, max) == [d EXCEPT !.maxErrs = max]

\* A variant of decoder.recordErr that stops one error late.
decoder_recordErr_late(d, path) ==
  LET d1 == [d EXCEPT !.errs = Append(@, TypeErr("from", path)),
                      !.log = Append(@, Ev("err", path))]
  IN IF d1.maxErrs > 0 /\ Len(d1.errs) > d1.maxErrs
     THEN [d1 EXCEPT !.errs = Append(@, ErrMax),
                     !.log = Append(@, Ev("max", path)),
                     !.panicked = "tooManyErrs"]
     ELSE d1

\* decoder.recordErr (decode.go:1075)
decoder_recordErr(d, path) ==
  LET d1 == [d EXCEPT !.errs = Append(@, TypeErr("from", path)),
                      !.log = Append(@, Ev("err", path))]
  IN IF d1.maxErrs > 0 /\ Len(d1.errs) >= d1.maxErrs
     THEN [d1 EXCEPT !.errs = Append(@, ErrMax),
                     !.log = Append(@, Ev("max", path)),
                     !.panicked = "tooManyErrs"]
     ELSE d1

\* CustomFromConverter(customFn), the option the tests pass to FromStarlark:
\* the decoder consults customFn
CustomFromConverter(d) == [d EXCEPT !.custom = TRUE]

\* the error of the custom converter goes through decoder.recordErr
decoder_recordCustomErr(d, path) ==
  LET d1 == [d EXCEPT !.errs = Append(@, CustomConvErr("from", path)),
                      !.log = Append(@, Ev("err", path))]
  IN IF d1.maxErrs > 0 /\ Len(d1.errs) >= d1.maxErrs
     THEN [d1 EXCEPT !.errs = Append(@, ErrMax),
                     !.log = Append(@, Ev("max", path)),
                     !.panicked = "tooManyErrs"]
     ELSE d1

Res(val, didSet, err, d) == [val |-> val, didSet |-> didSet, err |-> err, d |-> d]
\* return fmt.Errorf(...): the error goes to the caller, not to d.errs
Fail(val, path, d) ==
  Res(val, FALSE, TRUE, [d EXCEPT !.log = Append(@, Ev("fail", path))])
\* the reasons the numeric conversions give
OutOfRange == "out of range"
Inexact == "cannot exactly represent"
\* return fmt.Errorf("cannot assign ... at %s: <why>", path): the reason
\* follows the failure in the trace
FailWhy(val, path, why, d) ==
  Res(val, FALSE, TRUE,
      [d EXCEPT !.log = Append(Append(@, Ev("fail", path)), Ev(why, path))])

\* a panic other than tooManyErrs, raised in a call made by the decoder
Panics(val, path, d) ==
  Res(val, FALSE, FALSE,
      [d EXCEPT !.panicked = "invalid argument type",
                !.log = Append(@, Ev("panic", path))])

\* the single level of indirection every setField* function supports: the
\* value assigned through fld when fld is a pointer, else the value itself
Through(fld, v) == IF fld.typ.kind = "ptr" THEN GoPtr(v) ELSE v
\* fld.Elem() after the allocation of a nil pointer
Pointee(fld) ==
  IF fld.typ.kind = "ptr"
  THEN (IF fld.nil THEN Zero(fld.typ.elem[1]) ELSE fld.s[1])
  ELSE fld

\* A variant of setFieldNone that leaves an empty slice or map, not nil.
setFieldNone_empties(path, fld, d) ==
  IF fld.typ.kind \notin {"ptr", "slice", "map"} THEN Fail(fld, path, d)
  ELSE Res([Zero(fld.typ) EXCEPT !.nil = fld.typ.kind = "ptr"], FALSE, FALSE, d)

\* decoder.setFieldNone
setFieldNone(path, fld, d) ==
  IF fld.typ.kind \notin {"ptr", "slice", "map"} THEN Fail(fld, path, d)
  ELSE Res(Zero(fld.typ), FALSE, FALSE, d)

\* decoder.setFieldBool
setFieldBool(path, fld, b, d) ==
  IF fld.typ.kind = "ptr" /\ fld.typ.elem[1].kind # "bool" THEN Fail(fld, path, d)
  ELSE IF Pointee(fld).typ.kind # "bool" THEN Fail(fld, path, d)
  ELSE Res(Through(fld, [Pointee(fld) EXCEPT !.n = b]), FALSE, FALSE, d)

\* the width and the range of the sized integer types (starlark.AsInt)
Bits(kind) == IF kind \in {"int8", "uint8"} THEN 8 ELSE Bits64
Signed(kind) == kind \in {"int8", "int64"}
MinInt(kind) == IF Signed(kind) THEN 0 - 2^(Bits(kind) - 1) ELSE 0
MaxInt(kind) == IF Signed(kind) THEN 2^(Bits(kind) - 1) - 1 ELSE 2^Bits(kind) - 1

Abs(x) == IF x < 0 THEN 0 - x ELSE x

\* the distance between the floats of mant bits of mantissa around a >= 0
RECURSIVE Ulp(_, _)
Ulp(a, mant) == IF a < 2^mant THEN 1 ELSE 2 * Ulp(a \div 2, mant)

\* the conversion of the integer i to a float of mant bits of mantissa:
\* the nearest float, the one of even mantissa when two are as near
RoundTo(i, mant) ==
  LET a == Abs(i)
      u == Ulp(a, mant)
      q == a \div u
      r == a % u
      up == 2 * r > u \/ (2 * r = u /\ q % 2 = 1)
      m == (IF up THEN q + 1 ELSE q) * u
  IN IF i < 0 THEN 0 - m ELSE m

\* the conversion T(x) of the whole float x to the integer type T: x when
\* T holds it; else what the implementation makes of it, the low bits of x
\* (conv = "wrap") or the bound of T nearest to x (conv = "sat")
ConvFloat(x, kind, conv) ==
  IF x >= MinInt(kind) /\ x <= MaxInt(kind) THEN x
  ELSE IF conv = "sat" THEN (IF x < 0 THEN MinInt(kind) ELSE MaxInt(kind))
  ELSE LET low == x % 2^Bits(kind)
       IN IF Signed(kind) /\ low > MaxInt(kind) THEN low - 2^Bits(kind) ELSE low

\* reflect.Value.SetFloat: a float32 field holds the value rounded
SetFloat(elem, n, class) ==
  [elem EXCEPT !.n = IF elem.typ.kind = "float32" /\ class = Fin
                     THEN RoundTo(n, Mant32) ELSE n,
               !.t = class]

\* A variant of setFieldInt that converts as Go converts between integer
\* types: an Int out of the range of the field is cut to its low bits.
setFieldInt_wraps(path, fld, i, d) ==
  IF fld.typ.kind = "ptr" /\ fld.typ.elem[1].kind \notin NumKinds \cup FloatKinds
  THEN Fail(fld, path, d)
  ELSE
    LET elem == Pointee(fld) IN
    IF elem.typ.kind \notin NumKinds \cup FloatKinds THEN Fail(fld, path, d)
    ELSE IF elem.typ.kind \in FloatKinds
    THEN Res(Through(fld, SetFloat(elem, RoundTo(i, Mant64), Fin)), FALSE, FALSE, d)
    ELSE IF elem.typ.name # ""
    THEN Panics(Through(fld, elem), path, d)
    ELSE Res(Through(fld, [elem EXCEPT !.n = ConvFloat(i, elem.typ.kind, "wrap")]),
             FALSE, FALSE, d)

\* decoder.setFieldInt: a nil pointer is allocated before the range check;
\* into a float the Int is converted by starlark.AsFloat and stored; into an
\* integer by starlark.AsInt(i, fld.Addr().Interface()), which panics
\* ("invalid argument type") when the pointer is not to one of the
\* predeclared integer types, as for a field of a named integer type
setFieldInt(path, fld, i, d) ==
  IF fld.typ.kind = "ptr" /\ fld.typ.elem[1].kind \notin NumKinds \cup FloatKinds
  THEN Fail(fld, path, d)
  ELSE
    LET elem == Pointee(fld) IN
    IF elem.typ.kind \notin NumKinds \cup FloatKinds THEN Fail(fld, path, d)
    ELSE IF elem.typ.kind \in FloatKinds
    THEN Res(Through(fld, SetFloat(elem, RoundTo(i, Mant64), Fin)), FALSE, FALSE, d)
    ELSE IF elem.typ.name # ""
    THEN Panics(Through(fld, elem), path, d)
    ELSE IF i < MinInt(elem.typ.kind) \/ i > MaxInt(elem.typ.kind)
    THEN FailWhy(Through(fld, elem), path, OutOfRange, d)
    ELSE Res(Through(fld, [elem EXCEPT !.n = i]), FALSE, FALSE, d)

\* decoder.setFieldFloat
setFieldFloat(path, fld, f, d) ==
  IF fld.typ.kind = "ptr" /\ fld.typ.elem[1].kind \notin NumKinds \cup FloatKinds
  THEN Fail(fld, path, d)
  ELSE
    LET elem == Pointee(fld)
        kind == elem.typ.kind
        integer == f.n
        whole == f.t = Fin
        \* float64(T(integer)) for the integer type T of the field
        back == RoundTo(ConvFloat(integer, kind, d.conv), Mant64)
        \* float64(float32(fv)) differs from fv by more than epsilon
        lossy32 == \/ f.t = Fin /\ RoundTo(integer, Mant32) # integer
                   \/ f.t = Half /\ Abs(integer) >= 2^(Mant32 - 1)
    IN
    IF kind \notin NumKinds \cup FloatKinds THEN Fail(fld, path, d)
    ELSE IF kind = "float32"
    THEN IF lossy32 THEN FailWhy(Through(fld, elem), path, Inexact, d)
         ELSE Res(Through(fld, [elem EXCEPT !.n = integer, !.t = f.t]),
                  FALSE, FALSE, d)
    ELSE IF kind = "float64"
    THEN Res(Through(fld, [elem EXCEPT !.n = integer, !.t = f.t]), FALSE, FALSE, d)
    ELSE IF ~whole THEN FailWhy(Through(fld, elem), path, Inexact, d)
    ELSE IF ~Signed(kind) /\ integer < 0
    THEN FailWhy(Through(fld, elem), path, OutOfRange, d)
    ELSE IF kind # "uint64" /\ back # integer
    THEN FailWhy(Through(fld, elem), path, OutOfRange, d)
    ELSE \* fld.SetInt(int64(fv)), fld.SetUint(uint64(integer))
         Res(Through(fld, [elem EXCEPT !.n = ConvFloat(integer, kind, d.conv)]),
             FALSE, FALSE, d)

\* strconv's digits of a natural number; -1 when s is not one
RECURSIVE ParseNat(_)
ParseNat(s) ==
  IF s = <<>> \/ ~\E i \in 1..10 : Digits[i] = s[Len(s)] THEN 0 - 1
  ELSE LET digit == (CHOOSE i \in 1..10 : Digits[i] = s[Len(s)]) - 1
           front == SubSeq(s, 1, Len(s) - 1)
       IN IF front = <<>> THEN digit
          ELSE IF ParseNat(front) < 0 THEN 0 - 1
          ELSE ParseNat(front) * 10 + digit

\* time.ParseDuration for a number of seconds ("12s"); -1 for an error
ParseDuration(t) ==
  IF Len(t) >= 2 /\ t[Len(t)] = "s" THEN ParseNat(SubSeq(t, 1, Len(t) - 1))
  ELSE 0 - 1

\* customFn of TestFromStarlark_CustomConverter: into a time.Duration, a
\* String is parsed and an Int is a number of seconds; another Starlark
\* value, a String that is no duration and an Int beyond int64 are errors;
\* a destination of another type is left alone (false, nil)
customFrom(path, starv, gov) ==
  IF gov.typ # TDur THEN [handled |-> FALSE, err |-> FALSE, val |-> gov]
  ELSE
    CASE starv.k = "string" ->
           IF ParseDuration(starv.t) < 0
           THEN [handled |-> FALSE, err |-> TRUE, val |-> gov]
           ELSE [handled |-> TRUE, err |-> FALSE,
                 val |-> [gov EXCEPT !.n = ParseDuration(starv.t)]]
      [] starv.k = "int" ->
           IF starv.n < MinInt("int64") \/ starv.n > MaxInt("int64")
           THEN [handled |-> FALSE, err |-> TRUE, val |-> gov]
           ELSE [handled |-> TRUE, err |-> FALSE, val |-> [gov EXCEPT !.n = starv.n]]
      [] OTHER -> [handled |-> FALSE, err |-> TRUE, val |-> gov]

\* the converter of the caller is consulted first: when it handled the
\* value the destination holds what it set, an error it returns is
\* collected with the path of the field and the field is left, and
\* (false, nil) leaves the value to the built-in conversion
fromCustom(path, starVal, dst, d) ==
  IF ~d.custom THEN [handled |-> FALSE, val |-> dst, d |-> d]
  ELSE LET consulted(h) ==
             IF h.err
             THEN [handled |-> TRUE, val |-> dst,
                   d |-> decoder_recordCustomErr(d, path)]
             ELSE [handled |-> h.handled, val |-> h.val, d |-> d]
       IN consulted(customFrom(path, starVal, dst))

\* decoder.setFieldBytesOrString: the only errors that are recorded
setFieldBytesOrString(path, fld, s, d) ==
  LET ptr == fld.typ.kind = "ptr"
      byteSlice == IF ptr THEN isByteSliceType(fld.typ.elem[1])
                   ELSE isByteSliceType(fld.typ)
  IN
  IF ptr /\ fld.typ.elem[1].kind # "string" /\ ~byteSlice
  THEN Res(fld, FALSE, FALSE, decoder_recordErr(d, path))
  ELSE
    LET elem == Pointee(fld) IN
    IF elem.typ.kind # "string" /\ ~byteSlice
    THEN Res(Through(fld, elem), FALSE, FALSE, decoder_recordErr(d, path))
    ELSE IF byteSlice
    THEN Res(Through(fld, GoSlice(TUint8,
                 [j \in 1..Len(s) |-> GoUint8(CharByte(s[j]))], Len(s))),
             FALSE, FALSE, d)
    ELSE Res(Through(fld, [elem EXCEPT !.t = s]), FALSE, FALSE, d)


\* A variant of the test that skips only the unexported fields.
decodeSkips_unexportedOnly(fldTyp, nm) == ~IsExported(fldTyp)

\* if !fldTyp.IsExported() || nm == "-" { continue }   (walkStructDecode)
decodeSkips(fldTyp, nm) == ~IsExported(fldTyp) \/ nm = <<"-">>

\* A variant of the lookup that finds None under a key the source lacks:
\* with it a field without a matching key would be cleared.
lookup_absentIsNone(vals, nm, tryLower) ==
  IF DictHas(vals, nm) THEN [ok |-> TRUE, val |-> vals[nm]]
  ELSE IF tryLower /\ DictHas(vals, ToLower(nm))
  THEN [ok |-> TRUE, val |-> vals[ToLower(nm)]]
  ELSE [ok |-> TRUE, val |-> None]

\* A variant of the lookup that tries the lower-case name first.
lookup_lowerFirst(vals, nm, tryLower) ==
  IF tryLower /\ DictHas(vals, ToLower(nm))
  THEN [ok |-> TRUE, val |-> vals[ToLower(nm)]]
  ELSE IF DictHas(vals, nm) THEN [ok |-> TRUE, val |-> vals[nm]]
  ELSE [ok |-> FALSE, val |-> None]

\* the lookup of walkStructDecode: vals.Get(nm), then, for a field without
\* a name in its tag, vals.Get(strings.ToLower(nm))
lookup(vals, nm, tryLower) ==
  IF DictHas(vals, nm) THEN [ok |-> TRUE, val |-> vals[nm]]
  ELSE IF tryLower /\ DictHas(vals, ToLower(nm))
  THEN [ok |-> TRUE, val |-> vals[ToLower(nm)]]
  ELSE [ok |-> FALSE, val |-> None]

RECURSIVE walkStructDecodeFrom(_, _, _, _, _, _)
RECURSIVE fromStarlarkValue(_, _, _, _)
RECURSIVE setFieldDict(_, _, _, _)
RECURSIVE setFieldIterator(_, _, _, _)
RECURSIVE iterateInto(_, _, _, _, _)
RECURSIVE setFieldSet(_, _, _, _)
RECURSIVE iterateIntoMap(_, _, _, _, _)

\* decoder.walkStructDecode: the loop over the fields, from field i on
walkStructDecodeFrom(i, path, strct, vals, didSet, d) ==
  IF d.panicked # "" \/ i > NumField(strct.typ)
  THEN Res(strct, didSet, FALSE, d)
  ELSE
    LET fldTyp == Field(strct.typ, i)
        nm == Cut(fldTyp.Tag, ",")[1]
        p == FieldPath(path, fldTyp.Name)
        fld == strct.s[i]
        d1 == [d EXCEPT !.log = Append(@, Ev("visit", p))]
    IN
    IF decodeSkips(fldTyp, nm)
    THEN walkStructDecodeFrom(i+1, path, strct, vals, didSet, d)
    ELSE IF nm = <<>> /\ fldTyp.Anonymous
    THEN LET next(r, strct1) ==
               IF r.d.panicked # "" THEN Res(strct1, didSet, FALSE, r.d)
               ELSE IF r.err THEN Res(strct1, didSet, TRUE, r.d)
               ELSE walkStructDecodeFrom(i+1, path, strct1, vals,
                                         didSet \/ r.didSet, r.d)
             set(r) == next(r, [strct EXCEPT !.s[i] = r.val])
         IN set(setFieldDict(p, fld, vals, d1))
    ELSE
      LET name == IF nm = <<>> THEN fldTyp.Name ELSE nm
          found == lookup(vals, name, nm = <<>>)
      IN
      IF ~found.ok
      THEN \* leave the field unmodified, no matching starlark value
           walkStructDecodeFrom(i+1, path, strct, vals, didSet, d1)
      ELSE
        LET matchingVal == found.val
            d2 == [d1 EXCEPT !.log = Append(@, Ev("match", p))]
            next(r, strct1) ==
              IF r.d.panicked # "" THEN Res(strct1, TRUE, FALSE, r.d)
              ELSE IF r.err THEN Res(strct1, TRUE, TRUE, r.d)
              ELSE walkStructDecodeFrom(i+1, path, strct1, vals, TRUE, r.d)
            set(r) == next(r, [strct EXCEPT !.s[i] = r.val])
        IN set(fromStarlarkValue(p, matchingVal, fld, d2))

walkStructDecode(path, strct, vals, d) ==
  walkStructDecodeFrom(1, path, strct, vals, FALSE, d)

\* A variant of fromStarlarkValue that never consults the custom converter.
fromStarlarkValue_builtinOnly(path, starVal, dst, d) ==
  CASE starVal.k = "NoneType" -> setFieldNone(path, dst, d)
    [] starVal.k = "bool" -> setFieldBool(path, dst, starVal.n, d)
    [] starVal.k \in {"bytes", "string"} ->
         setFieldBytesOrString(path, dst, starVal.t, d)
    [] starVal.k = "int" -> setFieldInt(path, dst, starVal.n, d)
    [] starVal.k = "float" -> setFieldFloat(path, dst, starVal, d)
    [] starVal.k = "dict" ->
         LET result(r) == Res(r.val, FALSE, r.err, r.d)
         IN result(setFieldDict(path, dst, starVal.d, d))
    [] starVal.k \in {"list", "tuple"} -> setFieldIterator(path, dst, starVal, d)
    [] starVal.k = "set" -> setFieldSet(path, dst, starVal, d)
    [] OTHER -> Fail(dst, path, d)

\* decoder.fromStarlarkValue
fromStarlarkValue(path, starVal, dst, d) ==
  IF fromCustom(path, starVal, dst, d).handled
  THEN Res(fromCustom(path, starVal, dst, d).val, FALSE, FALSE,
           fromCustom(path, starVal, dst, d).d)
  ELSE
  CASE starVal.k = "NoneType" -> setFieldNone(path, dst, d)
    [] starVal.k = "bool" -> setFieldBool(path, dst, starVal.n, d)
    [] starVal.k \in {"bytes", "string"} ->
         setFieldBytesOrString(path, dst, starVal.t, d)
    [] starVal.k = "int" -> setFieldInt(path, dst, starVal.n, d)
    [] starVal.k = "float" -> setFieldFloat(path, dst, starVal, d)
    [] starVal.k = "dict" ->
         LET result(r) == Res(r.val, FALSE, r.err, r.d)
         IN result(setFieldDict(path, dst, starVal.d, d))
    [] starVal.k \in {"list", "tuple"} -> setFieldIterator(path, dst, starVal, d)
    [] starVal.k = "set" -> setFieldSet(path, dst, starVal, d)
    [] OTHER -> Fail(dst, path, d)

\* decoder.setFieldDict: a nil pointer to a struct is attached only when
\* the walk reports didSet; a panic skips the attachment
setFieldDict(path, fld, dict, d) ==
  IF fld.typ.kind = "ptr" /\ fld.typ.elem[1].kind # "struct"
  THEN Fail(fld, path, d)
  ELSE IF Pointee(fld).typ.kind # "struct" THEN Fail(fld, path, d)
  ELSE
    LET attach == fld.typ.kind = "ptr" /\ fld.nil
        result(r) ==
          IF attach /\ (r.d.panicked # "" \/ ~r.didSet)
          THEN Res(fld, r.didSet, r.err, r.d)
          ELSE Res(Through(fld, r.val), r.didSet, r.err, r.d)
    IN result(walkStructDecode(path, Pointee(fld), dict, d))

\* the loop of setFieldIterator: member i of the iterable is decoded into a
\* new element, which is appended to the slice
iterateInto(i, path, slice, iter, d) ==
  IF i > Len(iter.s) THEN Res(slice, FALSE, FALSE, d)
  ELSE
    LET newElem == Zero(slice.typ.elem[1])
        next(r) ==
          IF r.d.panicked # "" \/ r.err THEN Res(slice, FALSE, r.err, r.d)
          ELSE iterateInto(i+1, path, [slice EXCEPT !.s = Append(@, r.val)],
                           iter, r.d)
    IN next(fromStarlarkValue(IndexPath(path, i - 1), iter.s[i], newElem, d))

\* A variant of setFieldIterator that keeps the elements of a slice that is
\* large enough, and appends the members to them.
setFieldIterator_appends(path, fld, iter, d) ==
  IF fld.typ.kind = "ptr" /\ fld.typ.elem[1].kind # "slice"
  THEN Fail(fld, path, d)
  ELSE
    LET slice == Pointee(fld)
        count == Len(iter.s)
    IN
    IF slice.typ.kind # "slice" THEN Fail(fld, path, d)
    ELSE IF count = 0
    THEN Res(Through(fld, GoSlice(slice.typ.elem[1], <<>>, 0)), FALSE, FALSE, d)
    ELSE
      LET start == IF count > slice.c
                   THEN GoSlice(slice.typ.elem[1], <<>>, count)
                   ELSE slice
          result(r) == Res(Through(fld, r.val), FALSE, r.err, r.d)
      IN result(iterateInto(1, path, start, iter, d))

\* decoder.setFieldIterator (List, Tuple, and Set into a slice)
setFieldIterator(path, fld, iter, d) ==
  IF fld.typ.kind = "ptr" /\ fld.typ.elem[1].kind # "slice"
  THEN Fail(fld, path, d)
  ELSE
    LET slice == Pointee(fld)
        count == Len(iter.s)
    IN
    IF slice.typ.kind # "slice" THEN Fail(fld, path, d)
    ELSE IF count = 0
    THEN Res(Through(fld, GoSlice(slice.typ.elem[1], <<>>, 0)), FALSE, FALSE, d)
    ELSE
      LET start == IF count > slice.c
                   THEN GoSlice(slice.typ.elem[1], <<>>, count)
                   ELSE [slice EXCEPT !.s = <<>>]
          result(r) == Res(Through(fld, r.val), FALSE, r.err, r.d)
      IN result(iterateInto(1, path, start, iter, d))

\* reflect.Value.SetMapIndex(newKey, trueValue)
SetMapIndex(map, key) ==
  [map EXCEPT !.m = {x \in @ : x.key # key} \cup {[key |-> key, val |-> TRUE]}]

\* the loop of setFieldSet over the members of the Set
iterateIntoMap(i, path, map, set, d) ==
  IF i > Len(set.s) THEN Res(map, FALSE, FALSE, d)
  ELSE
    LET newKey == Zero(map.typ.elem[1])
        next(r) ==
          IF r.d.panicked # "" \/ r.err THEN Res(map, FALSE, r.err, r.d)
          ELSE iterateIntoMap(i+1, path, SetMapIndex(map, r.val), set, r.d)
    IN next(fromStarlarkValue(IndexPath(path, i - 1), set.s[i], newKey, d))

\* A variant of setFieldSet that always starts from a new, empty map.
setFieldSet_replaces(path, fld, set, d) ==
  IF fld.typ.kind = "slice"
     \/ (fld.typ.kind = "ptr" /\ fld.typ.elem[1].kind = "slice")
  THEN setFieldIterator(path, fld, set, d)
  ELSE IF fld.typ.kind = "ptr" /\ ~isSetMapType(fld.typ.elem[1])
  THEN Fail(fld, path, d)
  ELSE
    LET map == Pointee(fld) IN
    IF ~isSetMapType(map.typ) THEN Fail(fld, path, d)
    ELSE
      LET start == [map EXCEPT !.nil = FALSE, !.m = {}]
          d1 == IF map.nil THEN [d EXCEPT !.log = Append(@, Ev("alloc", path))]
                ELSE d
          result(r) == Res(Through(fld, r.val), FALSE, r.err, r.d)
      IN result(iterateIntoMap(1, path, start, set, d1))

\* decoder.setFieldSet
setFieldSet(path, fld, set, d) ==
  IF fld.typ.kind = "slice"
     \/ (fld.typ.kind = "ptr" /\ fld.typ.elem[1].kind = "slice")
  THEN setFieldIterator(path, fld, set, d)
  ELSE IF fld.typ.kind = "ptr" /\ ~isSetMapType(fld.typ.elem[1])
  THEN Fail(fld, path, d)
  ELSE
    LET map == Pointee(fld) IN
    IF ~isSetMapType(map.typ) THEN Fail(fld, path, d)
    ELSE
      LET start == IF map.nil THEN [map EXCEPT !.nil = FALSE] ELSE map
          \* fld.Set(reflect.MakeMapWithSize(mapTyp, count)) for a nil map
          d1 == IF map.nil THEN [d EXCEPT !.log = Append(@, Ev("alloc", path))]
                ELSE d
          result(r) == Res(Through(fld, r.val), FALSE, r.err, r.d)
      IN result(iterateIntoMap(1, path, start, set, d1))

\* FromStarlark (decode.go:521) with the decoder d its options made
FromStarlarkWith(vals, dst, d) ==
  IF ~isStructPtrType(dst.typ) \/ dst.nil
  THEN [val |-> dst, errs |-> <<>>, panic |-> "precondition", log |-> <<>>]
  ELSE
    LET decode(r) ==
          [val |-> GoPtr(r.val),
           \* recover: only for tooManyErrs is err set; any other panic is
           \* dropped and err stays nil
           errs |-> IF r.d.panicked \in {"", "tooManyErrs"} THEN r.d.errs ELSE <<>>,
           panic |-> "", log |-> r.d.log]
    IN decode(walkStructDecode(<<>>, dst.s[1], vals, d))

\* A variant of FromStarlark that allocates the record of a nil pointer.
FromStarlark_allocates(vals, dst, max, conv) ==
  IF ~isStructPtrType(dst.typ)
  THEN [val |-> dst, errs |-> <<>>, panic |-> "precondition", log |-> <<>>]
  ELSE
    LET decode(r) ==
          [val |-> GoPtr(r.val),
           \* recover: only for tooManyErrs is err set; any other panic is
           \* dropped and err stays nil
           errs |-> IF r.d.panicked \in {"", "tooManyErrs"} THEN r.d.errs ELSE <<>>,
           panic |-> "", log |-> r.d.log]
    IN decode(walkStructDecode(<<>>, Pointee(dst), vals,
                               MaxFromErrors(NewDecoder(conv), max)))

\* FromStarlark (decode.go:521) with decoder.decode: what walkStructDecode
\* returns is dropped, the returned error unwraps to d.errs (nil when empty)
FromStarlark(vals, dst, max, conv) ==
  IF ~isStructPtrType(dst.typ) \/ dst.nil
  THEN [val |-> dst, errs |-> <<>>, panic |-> "precondition", log |-> <<>>]
  ELSE
    LET decode(r) ==
          [val |-> GoPtr(r.val),
           \* recover: only for tooManyErrs is err set; any other panic is
           \* dropped and err stays nil
           errs |-> IF r.d.panicked \in {"", "tooManyErrs"} THEN r.d.errs ELSE <<>>,
           panic |-> "", log |-> r.d.log]
    IN decode(walkStructDecode(<<>>, dst.s[1], vals,
                               MaxFromErrors(NewDecoder(conv), max)))


(***************************************************************************)
(* The inputs of the model: the records and the dictionaries a caller      *)
(* holds before the first call.                                            *)
(***************************************************************************)
In(x, y) == GoStruct("In", <<GoInt8(x), GoString(y)>>)
Sib(w) == GoStruct("Sib", <<GoBool(w)>>)

Records ==
  { Zero(TStruct("Errs")),
    GoStruct("Errs", <<GoChan, GoInt8(1), GoNil(TPtr(TPtr(TBool))), GoChan,
                       GoString(<<"z">>)>>),
    Zero(TStruct("Over")),
    GoStruct("Over", <<GoBool(TRUE), GoInt8(5), GoPtr(GoInt8(7)),
                       GoSlice(TInt8, <<GoInt8(1), GoInt8(2)>>, 2),
                       GoMap(TString, TBool,
                             {[key |-> GoString(<<"a">>), val |-> TRUE]}),
                       GoString(<<"g">>), GoBool(TRUE), GoChan>>),
    Zero(TStruct("Emb")),
    GoStruct("Emb", <<GoPtr(In(1, <<"y">>)), Sib(TRUE), GoPtr(In(2, <<"q">>))>>) }

\* the records with embedded records: without a directive name (Emb) and
\* with one (Nest)
EmbRecords ==
  { Zero(TStruct("Emb")),
    GoStruct("Emb", <<GoPtr(In(1, <<"y">>)), Sib(TRUE), GoPtr(In(2, <<"q">>))>>),
    Zero(TStruct("Nest")),
    GoStruct("Nest", <<In(1, <<"y">>), GoPtr(Sib(TRUE))>>),
    Zero(TStruct("Flat")),
    GoStruct("Flat", <<Sib(TRUE), GoInt8(4)>>) }

\* the records of pointers, slices and maps: all nil; all set, the slices
\* with elements and the maps with entries; the slices and maps empty
SeqRecords ==
  { Zero(TStruct("Seq")),
    GoStruct("Seq",
      <<GoPtr(GoInt8(7)), GoNil(TPtr(TPtr(TBool))), GoNil(TPtr(TChan)),
        GoSlice(TInt8, <<GoInt8(1), GoInt8(2), GoInt8(9)>>, 3), GoInt8(6),
        GoPtr(GoSlice(TString, <<GoString(<<"c">>)>>, 1)),
        GoMap(TString, TBool, {[key |-> GoString(<<"b">>), val |-> TRUE],
                               [key |-> GoString(<<"c">>), val |-> FALSE]}),
        GoPtr(GoMap(TInt8, TBool, {[key |-> GoInt8(1), val |-> TRUE]})),
        GoPtr(In(2, <<"q">>))>>),
    GoStruct("Seq",
      <<GoPtr(GoInt8(0)), GoNil(TPtr(TPtr(TBool))), GoNil(TPtr(TChan)),
        GoSlice(TInt8, <<>>, 0), GoInt8(0),
        GoPtr(GoNil(TSlice(TString))),
        GoMap(TString, TBool, {}),
        GoPtr(GoNil(TMap(TInt8, TBool))),
        GoNil(TPtr(TStruct("In")))>>) }

\* a slice of int8 with the elements xs, its capacity its length
Int8s(xs) == GoSlice(TInt8, [j \in 1..Len(xs) |-> GoInt8(xs[j])], Len(xs))

\* the records of the round trips, of every supported shape: each field
\* nil, empty or holding values, a map with an entry of value false, a
\* slice encoded as a Set with the same element twice, a pointer to a nil
\* slice; and the records with embedded records
TripRecords ==
  { GoStruct("Trip",
      <<GoBool(b), GoString(IF b THEN <<"s">> ELSE <<>>), by, o[1], l, o[2],
        a, m, q, ps, Sib(b)>>) :
      b \in BOOLEAN,
      by \in {GoNil(TSlice(TUint8)), GoSlice(TUint8, <<>>, 0),
              GoSlice(TUint8, <<GoUint8(CharByte("a")), GoUint8(CharByte("b"))>>, 2)},
      o \in {<<GoNil(TPtr(TInt8)), GoNil(TSlice(TInt8))>>,
             <<GoPtr(GoInt8(0)), Int8s(<<2, 3>>)>>},
      l \in {GoNil(TSlice(TInt8)), Int8s(<<>>), Int8s(<<1, 1>>)},
      a \in {GoNil(TSlice(TInt8)), Int8s(<<1, 2>>), Int8s(<<1, 1>>)},
      m \in {GoNil(TMap(TString, TBool)), GoMap(TString, TBool, {}),
             GoMap(TString, TBool, {[key |-> GoString(<<"a">>), val |-> TRUE]}),
             GoMap(TString, TBool, {[key |-> GoString(<<"a">>), val |-> TRUE],
                                    [key |-> GoString(<<"b">>), val |-> FALSE]})},
      q \in {GoNil(TPtr(TStruct("In"))), GoPtr(In(0, <<>>))},
      ps \in {GoNil(TPtr(TSlice(TInt8))), GoPtr(GoNil(TSlice(TInt8))),
              GoPtr(Int8s(<<1>>))} }
  \cup EmbRecords

\* a time.Duration of n seconds
GoDur(n) == GV(TDur, FALSE, n, <<>>, <<>>, 0, {})

\* the records with fields of a type the custom converters know
CustRecords ==
  { Zero(TStruct("Cust")),
    GoStruct("Cust", <<GoDur(3), GoPtr(GoDur(4)), GoChan, GoInt8(6), GoDur(6),
                       GoSlice(TDur, <<GoDur(7), GoDur(8)>>, 2),
                       GoString(<<"s">>)>>),
    GoStruct("Cust", <<GoDur(9), GoNil(TPtr(TDur)), GoNil(TChan), GoInt8(0),
                       GoDur(0), GoSlice(TDur, <<>>, 0), GoString(<<>>)>>) }

\* a []string, a [][]string and a [][][]string
Strs(ts) == GoSlice(TString, [i \in 1..Len(ts) |-> GoString(ts[i])], Len(ts))
Strs2(xs) == GoSlice(TSlice(TString), xs, Len(xs))
Strs3(xs) == GoSlice(TSlice(TSlice(TString)), xs, Len(xs))
\* a []byte and a [][]byte
Bytes1(ns) == GoSlice(TUint8, [i \in 1..Len(ns) |-> GoUint8(ns[i])], Len(ns))
Bytes2(xs) == GoSlice(TSlice(TUint8), xs, Len(xs))

\* the [][]string values of the records with nested slices: nil, empty,
\* one inner slice, and two equal inner slices followed by a nil one
NestedStrs ==
  { GoNil(TSlice(TSlice(TString))),
    Strs2(<<>>),
    Strs2(<<Strs(<< <<"a">> >>)>>),
    Strs2(<<Strs(<< <<"a">>, <<"b">> >>), Strs(<< <<"a">>, <<"b">> >>),
            GoNil(TSlice(TString))>>) }

\* the records with nested slices under lists of options (the cases of
\* TestToStarlark for `astuple,asset` and `aslist,asset,astuple`)
DeepRecords ==
  { GoStruct("Deep", <<x, x, x, e, f, g, h, x>>) :
      x \in NestedStrs,
      e \in { GoNil(TPtr(TSlice(TPtr(TSlice(TString))))),
              GoPtr(GoSlice(TPtr(TSlice(TString)),
                            <<GoPtr(Strs(<< <<"a">>, <<"a">> >>)),
                              GoNil(TPtr(TSlice(TString))),
                              GoPtr(Strs(<< <<"a">>, <<"a">> >>)),
                              GoPtr(Strs(<< <<"b">> >>))>>, 4)) },
      f \in { Strs3(<<>>),
              Strs3(<<Strs2(<<Strs(<< <<"a">> >>), Strs(<< <<"a">> >>)>>),
                      Strs2(<<Strs(<< <<"b">>, <<"c">> >>)>>)>>) },
      g \in { GoNil(TSlice(TString)), Strs(<< <<"a">>, <<"b">> >>) },
      h \in { Bytes2(<<>>), Bytes2(<<Bytes1(<<97, 98>>), Bytes1(<<>>)>>) } }

\* an entry of a map
Entry(k, v) == [key |-> k, val |-> v]

\* the records with set-shaped maps whose keys cannot be converted (a chan)
\* or cannot be inserted (a struct becomes a Dict, which a Set refuses):
\* no such key, one, or several
KeyRecords ==
  { GoStruct("Keys", <<pc, GoMap(TChan, TBool, m), GoMap(TString, TBool, t),
                       GoMap(TStruct("In"), TBool, k)>>) :
      pc \in { GoNil(TPtr(TChan)), GoPtr(GoChanAt(9)) },
      m \in { {}, {Entry(GoChanAt(1), TRUE)},
              {Entry(GoChanAt(1), TRUE), Entry(GoChanAt(2), FALSE)},
              {Entry(GoChanAt(1), TRUE), Entry(GoChanAt(2), TRUE)},
              {Entry(GoChanAt(1), TRUE), Entry(GoChanAt(2), TRUE),
               Entry(GoChanAt(3), TRUE)} },
      t \in { {}, {Entry(GoString(<<"a">>), TRUE), Entry(GoString(<<"b">>), TRUE)} },
      k \in { {}, {Entry(In(1, <<"y">>), TRUE)},
              {Entry(In(1, <<"y">>), TRUE), Entry(In(2, <<"z">>), TRUE)} } }

\* the records with a field of a named integer type and an embedded pointer
PanRecords ==
  { Zero(TStruct("Pan")),
    GoStruct("Pan", <<GoInt8(1), GoInt(TLevel, 2), GoPtr(In(3, <<"y">>)),
                      GoString(<<"z">>)>>) }

\* the records of numbers: every field holds a number other than zero, so
\* that a failed assignment shows
NumRecords ==
  { GoStruct("Nums", <<GoInt8(3), GoUint8(3), GoInt(TInt64, 3), GoInt(TUint64, 3),
                       GoFloat(TFloat32, 3, Fin), GoFloat(TFloat64, 3, Fin),
                       GoNil(TPtr(TFloat64)), GoNil(TPtr(TInt8))>>) }

Str(t) == StarString(t)

\* the <<key, value>> pairs a dictionary is made of, for each struct type
Pairs(n) ==
  CASE n = "Errs" ->
         { << <<"F">>, Str(<<"a">>) >>, << <<"I">>, Str(<<"a">>) >>,
           << <<"i">>, StarInt(1) >>, << <<"B">>, Str(<<"a">>) >>,
           << <<"B">>, StarBool(TRUE) >>,
           << <<"C","h">>, Str(<<"a">>) >>, << <<"Z">>, Str(<<"a">>) >>,
           << <<"k">>, Str(<<"a">>) >> }
    [] n = "Over" ->
         { << <<"B">>, Str(<<"a">>) >>, << <<"b">>, StarBool(TRUE) >>,
           << <<"N","b">>, StarInt(3) >>, << <<"N","b">>, StarInt(200) >>,
           << <<"n","b">>, StarInt(4) >>, << <<"I">>, StarInt(9) >>,
           << <<"S","l">>, StarList(<<StarInt(3)>>) >>,
           << <<"s","l">>, StarList(<<StarInt(3), StarInt(300)>>) >>,
           << <<"M">>, StarSet(<<Str(<<"b">>)>>) >>,
           << <<"m">>, StarSet(<<Str(<<"b">>), StarInt(1)>>) >>,
           << <<"I","g">>, Str(<<"a">>) >>, << <<"i","g">>, StarInt(1) >>,
           << <<"u">>, StarBool(TRUE) >>, << <<"-">>, Str(<<"a">>) >>,
           << <<"G">>, Str(<<"a">>) >> }
    [] n = "Emb" ->
         { << <<"X">>, StarInt(1) >>, << <<"x">>, Str(<<"a">>) >>,
           << <<"X">>, StarInt(200) >>, << <<"Y">>, Str(<<"b">>) >>,
           << <<"W">>, StarBool(TRUE) >>,
           << <<"p","n">>, StarDict(<<>>) >>,
           << <<"p","n">>, StarDict(<<"X">> :> StarInt(3)) >>,
           << <<"p","n">>, StarDict(<<"q">> :> StarInt(3)) >>,
           << <<"p","n">>, StarDict(<<"x">> :> Str(<<"a">>)) >>,
           << <<"I","n">>, StarDict(<<"X">> :> StarInt(3)) >> }
    [] n = "Nest" ->
         { << <<"i","n">>, StarDict(<<"X">> :> StarInt(5)) >>,
           << <<"i","n">>, StarDict(<<"y">> :> Str(<<"b">>)) >>,
           << <<"I","n">>, StarDict(<<"X">> :> StarInt(6)) >>,
           << <<"X">>, StarInt(7) >>, << <<"Y">>, Str(<<"c">>) >>,
           << <<"s","b">>, StarDict(<<"W">> :> StarBool(TRUE)) >>,
           << <<"s","b">>, StarDict(<<"w">> :> StarBool(FALSE)) >>,
           << <<"S","i","b">>, StarDict(<<"W">> :> StarBool(TRUE)) >>,
           << <<"W">>, StarBool(TRUE) >> }
    [] n = "Flat" ->
         { << <<"W">>, StarBool(TRUE) >>, << <<"w">>, StarBool(FALSE) >>,
           << <<"W">>, StarInt(1) >>, << <<"K">>, StarInt(9) >>,
           << <<"S","i","b">>, StarDict(<<"W">> :> StarBool(TRUE)) >> }
    [] n = "Seq" ->
         { << <<"P">>, None >>, << <<"S","l">>, None >>, << <<"N">>, None >>,
           << <<"P","s">>, None >>, << <<"M">>, None >>, << <<"M","p">>, None >>,
           << <<"Q">>, None >>,
           << <<"S","l">>, StarList(<<StarInt(4)>>) >>,
           << <<"S","l">>, StarList(<<StarInt(4), StarInt(5), StarInt(6), StarInt(7)>>) >>,
           << <<"S","l">>, StarList(<<>>) >>,
           << <<"S","l">>, StarTuple(<<StarInt(8), StarInt(9)>>) >>,
           << <<"S","l">>, StarSet(<<StarInt(2), StarInt(1)>>) >>,
           << <<"S","l">>, StarList(<<StarInt(4), StarInt(300)>>) >>,
           << <<"P","s">>, StarList(<<Str(<<"a">>), Str(<<"b">>)>>) >>,
           << <<"P","s">>, StarSet(<<>>) >>,
           << <<"P","s">>, StarTuple(<<Str(<<"a">>)>>) >>,
           << <<"M">>, StarSet(<<Str(<<"a">>), Str(<<"c">>)>>) >>,
           << <<"M">>, StarSet(<<>>) >>,
           << <<"M">>, StarSet(<<Str(<<"a">>), StarInt(1)>>) >>,
           << <<"M","p">>, StarSet(<<StarInt(2), StarInt(1)>>) >>,
           << <<"M","p">>, StarSet(<<StarInt(3)>>) >> }
    [] n = "Nums" ->
         { \* Int into a float
           << <<"F","3","2">>, StarInt(7) >>,
           << <<"F","3","2">>, StarInt(2^Mant32 + 1) >>,
           << <<"F","3","2">>, StarInt(2^Mant64 + 1) >>,
           << <<"F","6","4">>, StarInt(2^Mant64) >>,
           << <<"F","6","4">>, StarInt(2^Mant64 + 1) >>,
           << <<"F","6","4">>, StarInt(0 - (2^Mant64 + 1)) >>,
           << <<"F","p">>, StarInt(2^Bits64) >>,
           << <<"F","p">>, StarInt(0 - 2^Mant64) >>,
           \* Float into an integer
           << <<"I","8">>, StarFloat(0 - 1, Fin) >>,
           << <<"I","8">>, StarFloat(128, Fin) >>,
           << <<"I","8">>, StarFloat(1, Half) >>,
           << <<"U","8">>, StarFloat(0 - 1, Fin) >>,
           << <<"U","8">>, StarFloat(256, Fin) >>,
           << <<"U","8">>, StarFloat(200, Fin) >>,
           << <<"I","6","4">>, StarFloat(2^(Bits64 - 1), Fin) >>,
           << <<"I","6","4">>, StarFloat(0 - 2^(Bits64 - 1), Fin) >>,
           << <<"U","6","4">>, StarFloat(2^Bits64, Fin) >>,
           << <<"U","6","4">>, StarFloat(0 - 1, Fin) >>,
           << <<"U","6","4">>, StarFloat(1, Inf) >>,
           << <<"I","p">>, StarFloat(0, NaN) >>,
           << <<"I","p">>, StarFloat(200, Fin) >>,
           \* Int into a sized integer
           << <<"i","8">>, StarInt(127) >>,
           << <<"i","8">>, StarInt(128) >>,
           << <<"i","8">>, StarInt(0 - 129) >>,
           << <<"u","8">>, StarInt(255) >>,
           << <<"u","8">>, StarInt(256) >>,
           << <<"u","8">>, StarInt(0 - 2) >>,
           << <<"i","6","4">>, StarInt(2^(Bits64 - 1)) >>,
           << <<"i","6","4">>, StarInt(2^(Bits64 - 1) - 1) >>,
           << <<"u","6","4">>, StarInt(2^Bits64) >>,
           << <<"u","6","4">>, StarInt(2^Bits64 - 1) >>,
           << <<"I","p">>, StarInt(128) >>,
           << <<"I","p">>, StarInt(0 - 128) >> }
    [] n = "Cust" ->
         { << <<"D","1">>, Str(<<"2","s">>) >>, << <<"D","1">>, Str(<<"x">>) >>,
           << <<"D","1">>, StarInt(25) >>, << <<"d","1">>, StarBool(TRUE) >>,
           << <<"D","2">>, StarInt(30) >>, << <<"D","2">>, Str(<<"2","s">>) >>,
           << <<"C","h">>, Str(<<"a">>) >>,
           << <<"N">>, StarInt(3) >>, << <<"N">>, Str(<<"a">>) >>,
           << <<"d","3">>, StarInt(5) >>, << <<"d","3">>, Str(<<"1","2","s">>) >>,
           << <<"d","s">>, StarList(<<StarInt(33), Str(<<"2","s">>)>>) >>,
           << <<"d","s">>, StarList(<<Str(<<"x">>), StarInt(1)>>) >>,
           << <<"S">>, Str(<<"a">>) >>, << <<"S">>, StarInt(1) >>,
           << <<"k">>, StarInt(1) >> }
    [] n = "Keys" ->
         { << <<"M">>, StarSet(<<StarInt(1)>>) >>,
           << <<"S">>, StarSet(<<Str(<<"c">>)>>) >>,
           << <<"s">>, StarInt(1) >> }
    [] n = "Pan" ->
         { << <<"A">>, StarInt(5) >>, << <<"A">>, Str(<<"a">>) >>,
           << <<"L">>, StarInt(6) >>, << <<"L">>, Str(<<"a">>) >>,
           << <<"X">>, StarInt(7) >>, << <<"Z">>, Str(<<"b">>) >>,
           << <<"Z">>, StarInt(1) >> }
    [] n = "Deep" ->
         { << <<"a">>, StarInt(1) >>,
           << <<"g">>, StarList(<<Str(<<"x">>)>>) >>,
           << <<"k">>, StarInt(1) >> }
    [] OTHER -> {}

DictOf(S) == [k \in {p[1] : p \in S} |-> (CHOOSE p \in S : p[1] = k)[2]]

\* the subsets of S of at most k members
RECURSIVE SubsetsUpTo(_, _)
SubsetsUpTo(S, k) ==
  IF k = 0 THEN {{}}
  ELSE LET more(prev) == prev \cup {T \cup {x} : T \in prev, x \in S}
       IN more(SubsetsUpTo(S, k - 1))

Dicts(n) ==
  { DictOf(S) : S \in { T \in SubsetsUpTo(Pairs(n), MaxKeys) :
                          \A p, q \in T : p[1] = q[1] => p = q } }

(***************************************************************************)
(* The state: the record and the dictionary the caller holds, the cap the  *)
(* caller passes, and what the last call was given and returned.  For the  *)
(* calls that are followed step by step (SpecWalk): heap, the records and  *)
(* the dictionaries by address, and stack, the frames of the call that is  *)
(* running.                                                                *)
(***************************************************************************)
VARIABLES strct, sdict, maxErrs, calls, op, errs, panic, log, strct0, sdict0,
          heap, stack

vars == <<strct, sdict, maxErrs, calls, op, errs, panic, log, strct0, sdict0,
          heap, stack>>

\* no record and no dictionary is held by address
NoHeap == [go |-> <<>>, star |-> <<>>]

Init ==
  /\ strct \in Records
  /\ sdict \in Dicts(strct.typ.name)
  /\ maxErrs \in 0..MaxCap
  /\ calls = 0
  /\ op = "none"
  /\ errs = <<>>
  /\ panic = ""
  /\ log = <<>>
  /\ strct0 = strct
  /\ sdict0 = sdict
  /\ heap = NoHeap
  /\ stack = <<>>

\* err := starstruct.ToStarlark(strct, sdict, starstruct.MaxToErrors(maxErrs))
CallToStarlark ==
  /\ calls < MaxCalls
  /\ \E order \in {"up", "down"} :
       LET return(r) == /\ sdict' = r.dst
                        /\ errs' = r.errs
                        /\ panic' = r.panic
                        /\ log' = r.log
       IN return(ToStarlark(strct, sdict, maxErrs, order))
  /\ op' = "to"
  /\ calls' = calls + 1
  /\ strct0' = strct
  /\ sdict0' = sdict
  /\ UNCHANGED <<strct, maxErrs, heap, stack>>

\* err := starstruct.FromStarlark(sdict, &strct, starstruct.MaxFromErrors(maxErrs))
CallFromStarlark ==
  /\ calls < MaxCalls
  /\ \E conv \in {"wrap", "sat"} :
       LET return(r) == /\ strct' = r.val.s[1]
                        /\ errs' = r.errs
                        /\ panic' = r.panic
                        /\ log' = r.log
       IN return(FromStarlark(sdict, GoPtr(strct), maxErrs, conv))
  /\ op' = "from"
  /\ calls' = calls + 1
  /\ strct0' = strct
  /\ sdict0' = sdict
  /\ UNCHANGED <<sdict, maxErrs, heap, stack>>

Next == CallToStarlark \/ CallFromStarlark

Spec == Init /\ [][Next]_vars

\* the state before the first call, for the records in R and a cap in caps
InitOf(R, caps) ==
  /\ strct \in R
  /\ sdict \in Dicts(strct.typ.name)
  /\ maxErrs \in caps
  /\ calls = 0
  /\ op = "none"
  /\ errs = <<>>
  /\ panic = ""
  /\ log = <<>>
  /\ strct0 = strct
  /\ sdict0 = sdict
  /\ heap = NoHeap
  /\ stack = <<>>

\* the calls on the records with embedded records
InitEmbedded == InitOf(EmbRecords, {0, MaxCap})
SpecEmbedded == InitEmbedded /\ [][Next]_vars

\* the calls on the records of pointers, slices and maps
InitShapes == InitOf(SeqRecords, {0, MaxCap})
SpecShapes == InitShapes /\ [][Next]_vars

\* the calls on the records of numbers
InitNums == InitOf(NumRecords, {0, MaxCap})
SpecNums == InitNums /\ [][Next]_vars

\* what a caller can give to ToStarlark as vals, holding the record r: r, a
\* pointer to r, a pointer to a pointer to r, nil pointers of one and two
\* levels, a pointer to a nil pointer, a string, a pointer to a string, nil
Arguments(r) ==
  { r, GoPtr(r), GoPtr(GoPtr(r)),
    GoNil(TPtr(r.typ)), GoNil(TPtr(TPtr(r.typ))), GoPtr(GoNil(TPtr(r.typ))),
    GoString(<<"s">>), GoPtr(GoString(<<"s">>)), GoInvalid }

\* err := starstruct.ToStarlark(vals, sdict, starstruct.MaxToErrors(maxErrs))
\* for any argument vals, which strct0 keeps
CallToStarlarkWith ==
  /\ calls < MaxCalls
  /\ \E vals \in Arguments(strct), order \in {"up", "down"} :
       LET return(r) == /\ sdict' = r.dst
                        /\ errs' = r.errs
                        /\ panic' = r.panic
                        /\ log' = r.log
       IN /\ return(ToStarlark(vals, sdict, maxErrs, order))
          /\ strct0' = vals
  /\ op' = "to"
  /\ calls' = calls + 1
  /\ sdict0' = sdict
  /\ UNCHANGED <<strct, maxErrs, heap, stack>>

\* the calls of ToStarlark with any argument
InitArgs == InitOf(Records, {0, MaxCap})
NextArgs == CallToStarlarkWith
SpecArgs == InitArgs /\ [][NextArgs]_vars

\* what a caller can give to FromStarlark as dst, holding the record r: a
\* pointer to r, r itself, a nil pointer to a record, a pointer to a pointer
\* to r, a string, a pointer to a string, nil
Destinations(r) ==
  { GoPtr(r), r, GoNil(TPtr(r.typ)), GoPtr(GoPtr(r)),
    GoString(<<"s">>), GoPtr(GoString(<<"s">>)), GoInvalid }

\* err := starstruct.FromStarlark(sdict, dst, starstruct.MaxFromErrors(maxErrs))
\* for any destination dst, which strct0 keeps; strct is the record behind
\* a pointer of one level after the call
CallFromStarlarkWith ==
  /\ calls < MaxCalls
  /\ \E dst \in Destinations(strct), conv \in {"wrap", "sat"} :
       LET return(r) == /\ strct' = IF isStructPtrType(r.val.typ) /\ ~r.val.nil
                                    THEN r.val.s[1] ELSE strct
                        /\ errs' = r.errs
                        /\ panic' = r.panic
                        /\ log' = r.log
       IN /\ return(FromStarlark(sdict, dst, maxErrs, conv))
          /\ strct0' = dst
  /\ op' = "from"
  /\ calls' = calls + 1
  /\ sdict0' = sdict
  /\ UNCHANGED <<sdict, maxErrs, heap, stack>>

\* the calls of FromStarlark with any destination
InitDst == InitOf(Records, {0, MaxCap})
NextDst == CallFromStarlarkWith
SpecDst == InitDst /\ [][NextDst]_vars

\* err := starstruct.ToStarlark(strct, sdict, starstruct.MaxToErrors(maxErrs),
\*                              starstruct.CustomToConverter(customFn))
CallToStarlarkCustom ==
  /\ calls < MaxCalls
  /\ \E order \in {"up", "down"} :
       LET return(r) == /\ sdict' = r.dst
                        /\ errs' = r.errs
                        /\ panic' = r.panic
                        /\ log' = r.log
       IN return(ToStarlarkWith(strct, sdict,
                   CustomToConverter(MaxToErrors(NewEncoder(order), maxErrs))))
  /\ op' = "to"
  /\ calls' = calls + 1
  /\ strct0' = strct
  /\ sdict0' = sdict
  /\ UNCHANGED <<strct, maxErrs, heap, stack>>

\* err := starstruct.FromStarlark(sdict, &strct, starstruct.MaxFromErrors(maxErrs),
\*                                starstruct.CustomFromConverter(customFn))
CallFromStarlarkCustom ==
  /\ calls < MaxCalls
  /\ \E conv \in {"wrap", "sat"} :
       LET return(r) == /\ strct' = r.val.s[1]
                        /\ errs' = r.errs
                        /\ panic' = r.panic
                        /\ log' = r.log
       IN return(FromStarlarkWith(sdict, GoPtr(strct),
                   CustomFromConverter(MaxFromErrors(NewDecoder(conv), maxErrs))))
  /\ op' = "from"
  /\ calls' = calls + 1
  /\ strct0' = strct
  /\ sdict0' = sdict
  /\ UNCHANGED <<sdict, maxErrs, heap, stack>>

\* the calls with a custom converter
InitCustom == InitOf(CustRecords, {0, 1, MaxCap})
NextCustom == CallToStarlarkCustom \/ CallFromStarlarkCustom
SpecCustom == InitCustom /\ [][NextCustom]_vars

\* var out T; err := starstruct.FromStarlark(sdict, &out): the dictionary
\* ToStarlark wrote is decoded into a zero record of the type of the
\* encoded one, which strct0 keeps
DecodeIntoZero ==
  /\ calls < MaxCalls
  /\ op = "to" /\ panic = ""
  /\ \E conv \in {"wrap", "sat"} :
       LET return(r) == /\ strct' = r.val.s[1]
                        /\ errs' = r.errs
                        /\ panic' = r.panic
                        /\ log' = r.log
       IN return(FromStarlark(sdict, GoPtr(Zero(strct.typ)), maxErrs, conv))
  /\ op' = "from"
  /\ calls' = calls + 1
  /\ sdict0' = sdict
  /\ UNCHANGED <<sdict, maxErrs, strct0, heap, stack>>

\* the round trips: a record is encoded into an empty dictionary, and the
\* dictionary is decoded into a zero record
InitRoundTrip ==
  /\ strct \in TripRecords
  /\ sdict = EmptyDict
  /\ maxErrs \in {0, MaxCap}
  /\ calls = 0
  /\ op = "none"
  /\ errs = <<>>
  /\ panic = ""
  /\ log = <<>>
  /\ strct0 = strct
  /\ sdict0 = sdict
  /\ heap = NoHeap
  /\ stack = <<>>

NextRoundTrip == CallToStarlark \/ DecodeIntoZero

SpecRoundTrip == InitRoundTrip /\ [][NextRoundTrip]_vars

(***************************************************************************)
(* What the properties below are stated with: the fields of a record as    *)
(* the documentation describes them, and the events of the last call.      *)
(***************************************************************************)
\* the name given by the directive of a field: the tag up to its first comma
DirectiveName(f) == Cut(f.Tag, ",")[1]

\* a field neither direction looks at: unexported, or with the directive "-"
Ignored(f) == ~IsExported(f) \/ DirectiveName(f) = <<"-">>

\* an embedded record without a directive name: its fields are flattened
Flattened(f) == f.Anonymous /\ DirectiveName(f) = <<>>

\* the name a field is written under in Encode
ResolvedName(f) == IF DirectiveName(f) # <<>> THEN DirectiveName(f) ELSE f.Name

\* the key of dict a field is decoded from, as a sequence of zero or one key:
\* the directive name if there is one, else the Go name, else the Go name
\* in lower case
KeyOf(f, dict) ==
  IF DirectiveName(f) # <<>>
  THEN (IF DirectiveName(f) \in DOMAIN dict THEN <<DirectiveName(f)>> ELSE <<>>)
  ELSE IF f.Name \in DOMAIN dict THEN <<f.Name>>
  ELSE IF ToLower(f.Name) \in DOMAIN dict THEN <<ToLower(f.Name)>>
  ELSE <<>>

\* the path q is the path p or the path of a part of what is at p
Under(p, q) ==
  \/ q = p
  \/ /\ Len(q) > Len(p)
     /\ SubSeq(q, 1, Len(p)) = p
     /\ q[Len(p) + 1] \in {".", "["}

HasEv(ev, path) == \E i \in 1..Len(log) : log[i] = Ev(ev, path)

\* some error of the last call is about the field at path or a part of it
ErrAt(path) == \E i \in 1..Len(errs) : Under(path, errs[i].path)

\* the field of a record, through a pointer
RECURSIVE Deref(_)
Deref(v) == IF v.typ.kind = "ptr" /\ ~v.nil THEN Deref(v.s[1]) ELSE v

\* Every looked-up field of the record v0 that no key of dict matches has
\* in v1 the value it has in v0, and no error is about it.  Flattened
\* records and records decoded from an inner dictionary are followed.
RECURSIVE Overlay(_, _, _, _)
Overlay(path, v0, v1, dict) ==
  \A i \in 1..NumField(v0.typ) :
    LET f == Field(v0.typ, i)
        p == FieldPath(path, f.Name)
        a == v0.s[i]
        b == v1.s[i]
        key == KeyOf(f, dict)
    IN
    \/ Ignored(f)
    \/ /\ Flattened(f)
       /\ Deref(a).typ.kind = "struct" => /\ Deref(b).typ.kind = "struct"
                                          /\ Overlay(p, Deref(a), Deref(b), dict)
    \/ /\ ~Flattened(f)
       /\ key = <<>> => (b = a /\ ~ErrAt(p))
       /\ (key # <<>> /\ dict[key[1]].k = "dict" /\ Deref(a).typ.kind = "struct"
             /\ Deref(b).typ.kind = "struct")
            => Overlay(p, Deref(a), Deref(b), dict[key[1]].d)

\* C1 (partial overlay): after every call of FromStarlark, each field of
\* the destination that is not ignored and that no key of the source
\* matches (by its resolved name, or for a field without a directive name
\* by its name in lower case) holds the value it held before the call, and
\* no error of the call is about it.
C1_PartialOverlay == op = "from" => Overlay(<<>>, strct0, strct, sdict0)

\* C1 happens: a call changed the record and left alone a field that held
\* a value other than its zero value and that no key matched.
C1_Witness ==
  /\ op = "from"
  /\ strct # strct0
  /\ \E i \in 1..NumField(strct0.typ) :
       LET f == Field(strct0.typ, i) IN
       /\ ~Ignored(f) /\ ~Flattened(f)
       /\ KeyOf(f, sdict0) = <<>>
       /\ strct0.s[i] # Zero(f.Type)
       /\ strct.s[i] = strct0.s[i]

\* the names Encode writes the fields of a record type under
RECURSIVE ResolvedNames(_)
ResolvedNames(typ) ==
  UNION { LET f == Field(typ, i) IN
          IF Ignored(f) THEN {}
          ELSE IF Flattened(f)
          THEN ResolvedNames(IF f.Type.kind = "ptr" THEN f.Type.elem[1] ELSE f.Type)
          ELSE {ResolvedName(f)} : i \in 1..NumField(typ) }

\* C2 (Encode never clears): after every call of ToStarlark, with or
\* without errors, the destination still has every key it had before the
\* call, and a key that is not the resolved name of a field of the record
\* still has the value it had.
C2_EncodeNeverClears ==
  op = "to" =>
    \A k \in DOMAIN sdict0 :
      /\ k \in DOMAIN sdict
      /\ k \notin ResolvedNames(strct0.typ) => sdict[k] = sdict0[k]

\* C2 happens: a call wrote a field into a destination that held a key no
\* field resolves to, and returned errors.
C2_Witness ==
  /\ op = "to"
  /\ errs # <<>>
  /\ \E k \in DOMAIN sdict0 : k \notin ResolvedNames(strct0.typ)
  /\ \E k \in DOMAIN sdict : k \notin DOMAIN sdict0

(***************************************************************************)
(* The fields of a record that fail, by the conversions ToStarlark and     *)
(* FromStarlark document as supported (for the scalar fields of Errs).     *)
(***************************************************************************)
\* a Go type ToStarlark converts: a supported type or a pointer to one
RECURSIVE SupportedTo(_)
SupportedTo(t) ==
  CASE t.kind \in {"bool", "int8", "uint8", "string", "struct"} -> TRUE
    [] t.kind = "slice" -> SupportedTo(t.elem[1])
    [] t.kind = "map" -> t.elem[2].kind = "bool" /\ SupportedTo(t.elem[1])
    [] t.kind = "ptr" -> t.elem[1].kind # "ptr" /\ SupportedTo(t.elem[1])
    [] OTHER -> FALSE

\* a scalar Starlark value FromStarlark converts to a Go type
SupportedFrom(v, typ) ==
  LET t == IF typ.kind = "ptr" THEN typ.elem[1] ELSE typ IN
  CASE v.k = "NoneType" -> typ.kind \in {"ptr", "slice", "map"}
    [] v.k = "bool" -> t.kind = "bool"
    [] v.k \in {"string", "bytes"} -> t.kind = "string" \/ isByteSliceType(t)
    [] v.k = "int" -> t.kind \in NumKinds /\ v.n >= MinInt(t.kind)
                                          /\ v.n <= MaxInt(t.kind)
    [] OTHER -> FALSE

\* the paths of the fields of a record type for which Bad(i) holds, in
\* declaration order
PathsWhere(typ, Bad(_)) ==
  LET sel == SelectSeq([i \in 1..NumField(typ) |-> i], Bad)
  IN [j \in 1..Len(sel) |-> Field(typ, sel[j]).Name]

FailingTo(typ) ==
  LET Bad(i) == ~Ignored(Field(typ, i)) /\ ~SupportedTo(Field(typ, i).Type)
  IN PathsWhere(typ, Bad)

FailingFrom(typ, dict) ==
  LET Bad(i) == LET f == Field(typ, i) IN
                /\ ~Ignored(f)
                /\ KeyOf(f, dict) # <<>>
                /\ ~SupportedFrom(dict[KeyOf(f, dict)[1]], f.Type)
  IN PathsWhere(typ, Bad)

\* the failing fields of the last call, when it was given a record of Errs
Failing ==
  IF op = "to" THEN FailingTo(strct0.typ) ELSE FailingFrom(strct0.typ, sdict0)

OnErrs == op \in {"to", "from"} /\ strct0.typ.name = "Errs"

ErrPaths == [i \in 1..Len(errs) |-> errs[i].path]

\* C3 (errors are collected): a call of ToStarlark or FromStarlark without
\* a cap returns one entry per failed field, in the order of the walk (so
\* none exactly when no field failed), and every field that is not ignored
\* is still visited.
C3_ErrorsCollected ==
  (OnErrs /\ maxErrs = 0) =>
    /\ ErrPaths = Failing
    /\ \A i \in 1..NumField(strct0.typ) :
         ~Ignored(Field(strct0.typ, i)) => HasEv("visit", Field(strct0.typ, i).Name)

\* C4 (cap exceeded): with a cap N > 0 and more than N failing fields, the
\* returned list has N + 1 entries: the first N field errors in the order of
\* the walk, then the sentinel.
C4_CapExceeded ==
  (OnErrs /\ maxErrs > 0 /\ Len(Failing) > maxErrs) =>
    /\ Len(errs) = maxErrs + 1
    /\ \A i \in 1..maxErrs : errs[i].kind # "max" /\ errs[i].path = Failing[i]
    /\ errs[maxErrs + 1] = ErrMax

\* C5 (cap met exactly): with a cap N > 0 and exactly N failing fields, the
\* returned list has the N field errors and no sentinel.
C5_CapMetExactly ==
  (OnErrs /\ maxErrs > 0 /\ Len(Failing) = maxErrs) =>
    /\ ErrPaths = Failing
    /\ \A i \in 1..Len(errs) : errs[i].kind # "max"

\* the number of events ev among the first i events of the last call
RECURSIVE CountEv(_, _)
CountEv(ev, i) ==
  IF i = 0 THEN 0
  ELSE CountEv(ev, i - 1) + (IF log[i].ev = ev THEN 1 ELSE 0)

Capped == ErrMax \in {errs[i] : i \in 1..Len(errs)}

\* C6 as stated (stop on cap): with a cap N > 0, the moment the number of
\* collected field errors becomes N the sentinel is appended and the
\* traversal stops: no field is visited after the N-th field error.
C6_StopsWhenCapReached ==
  (op \in {"to", "from"} /\ maxErrs > 0) =>
    \A i \in 1..Len(log) :
      (log[i].ev = "err" /\ CountEv("err", i) = maxErrs) =>
        /\ Capped
        /\ \A j \in (i+1)..Len(log) : log[j].ev # "visit"

\* C6 as amended (stop on the sentinel): nothing is visited or written
\* after the sentinel is appended, a field the walk did not reach is as it
\* was before the call, and what Encode wrote before the stop is still in
\* the destination.  In Encode the sentinel is appended by the failure that
\* follows the N-th collected error, not by the N-th.
C6_StopsAtSentinel ==
  (op \in {"to", "from"} /\ maxErrs > 0) =>
    /\ Capped <=> (\E i \in 1..Len(log) : log[i].ev = "max")
    /\ \A i \in 1..Len(log) : log[i].ev = "max" => i = Len(log)
    /\ Capped => errs[Len(errs)] = ErrMax
    /\ (Capped /\ op = "to") =>
         /\ Len(errs) = maxErrs + 1
         /\ CountEv("err", Len(log)) = maxErrs
         /\ \A i \in 1..maxErrs : errs[i].path # log[Len(log)].path
    /\ Capped =>
         \A i \in 1..NumField(strct0.typ) :
           LET f == Field(strct0.typ, i) IN
           /\ (op = "from" /\ ~HasEv("visit", f.Name)) => strct.s[i] = strct0.s[i]
           /\ (op = "to" /\ HasEv("write", f.Name)) => ResolvedName(f) \in DOMAIN sdict
           /\ (op = "to" /\ ~HasEv("visit", f.Name)
                 /\ \A j \in 1..NumField(strct0.typ) :
                      HasEv("write", Field(strct0.typ, j).Name)
                        => ResolvedName(Field(strct0.typ, j)) # ResolvedName(f))
                => /\ ResolvedName(f) \in DOMAIN sdict
                      <=> ResolvedName(f) \in DOMAIN sdict0
                   /\ ResolvedName(f) \in DOMAIN sdict0
                      => sdict[ResolvedName(f)] = sdict0[ResolvedName(f)]

\* C6 happens: Encode collected N errors, then visited and wrote another
\* field, then stopped at the sentinel.
C6_Witness ==
  /\ op = "to" /\ maxErrs > 0 /\ Capped
  /\ \E i, j \in 1..Len(log) :
       /\ i < j
       /\ log[i].ev = "err" /\ CountEv("err", i) = maxErrs
       /\ log[j].ev = "write" /\ log[j].path # log[i].path
       /\ ResolvedName(CHOOSE f \in {Field(strct0.typ, k) : k \in 1..NumField(strct0.typ)} :
                         f.Name = log[j].path) \in DOMAIN sdict

\* the last call failed to convert what is at path
FailedAt(path) ==
  \E i \in 1..Len(log) : log[i].ev \in {"err", "fail"} /\ Under(path, log[i].path)

\* C7 (a failed field write changes nothing): after FromStarlark a field
\* whose conversion failed holds the value it held before the call, and
\* without a cap the walk goes on to every later field.
C7_FailedWriteKeepsValue ==
  op = "from" =>
    \A i \in 1..NumField(strct0.typ) :
      LET f == Field(strct0.typ, i) IN
      (~Ignored(f) /\ ~Flattened(f)) =>
        /\ FailedAt(f.Name) => strct.s[i] = strct0.s[i]
        /\ maxErrs = 0 => HasEv("visit", f.Name)

\* the last call set a field inside the record at path: a key matched the
\* field and nothing at or under the field failed
SetInside(path) ==
  \E i \in 1..Len(log) :
    /\ log[i].ev = "match"
    /\ Under(path, log[i].path) /\ log[i].path # path
    /\ \A j \in 1..Len(log) :
         log[j].ev \in {"err", "fail", "max"} => ~Under(log[i].path, log[j].path)

\* C8 (attachment of an optional sub-record): a pointer to a record that
\* was nil before FromStarlark is not nil after it only if the call set at
\* least one field inside that record.
C8_AttachedOnlyIfSet ==
  op = "from" =>
    \A i \in 1..NumField(strct0.typ) :
      LET f == Field(strct0.typ, i) IN
      (~Ignored(f) /\ isStructPtrType(f.Type) /\ strct0.s[i].nil /\ ~strct.s[i].nil)
        => SetInside(f.Name)

\* C9 (lookup order): a field FromStarlark reached is decoded from the key
\* the lookup order gives (the directive name alone for a field that has
\* one, else the declared name, else the declared name in lower case): with
\* no such key it is not matched and keeps its value, and with a Bool, Int
\* or String under that key that fits its type it holds that value.
C9_LookupOrder ==
  op = "from" =>
    \A i \in 1..NumField(strct0.typ) :
      LET f == Field(strct0.typ, i)
          key == KeyOf(f, sdict0)
      IN
      (~Ignored(f) /\ ~Flattened(f) /\ HasEv("visit", f.Name)) =>
        /\ key = <<>> => (~HasEv("match", f.Name) /\ strct.s[i] = strct0.s[i])
        /\ (key # <<>> /\ sdict0[key[1]].k \in {"bool", "int", "string"}
              /\ SupportedFrom(sdict0[key[1]], f.Type))
             => /\ HasEv("match", f.Name)
                /\ Deref(strct.s[i]).typ.kind \notin {"ptr"}
                /\ Deref(strct.s[i]).n = sdict0[key[1]].n
                /\ Deref(strct.s[i]).t = sdict0[key[1]].t

\* C9 happens: the source held Nb and nb; the key Nb populated both the
\* field I (directive name Nb) and the field Nb, and nb was not used.
C9_Witness ==
  /\ op = "from"
  /\ strct0 = Zero(TStruct("Over"))
  /\ {<<"N","b">>, <<"n","b">>} \subseteq DOMAIN sdict0
  /\ sdict0[<<"N","b">>].n # sdict0[<<"n","b">>].n
  /\ strct.s[2].n = sdict0[<<"N","b">>].n
  /\ ~strct.s[3].nil /\ strct.s[3].s[1].n = sdict0[<<"N","b">>].n

\* C10 (ignored fields): a field that is unexported or has the directive
\* name "-" is never visited by ToStarlark or FromStarlark: no error is
\* about it, FromStarlark leaves it as it was, and ToStarlark leaves as
\* they were the keys of its name, its name in lower case and "-".
C10_IgnoredFields ==
  op \in {"to", "from"} =>
    \A i \in 1..NumField(strct0.typ) :
      LET f == Field(strct0.typ, i) IN
      Ignored(f) =>
        /\ \A j \in 1..Len(log) : ~Under(f.Name, log[j].path)
        /\ ~ErrAt(f.Name)
        /\ op = "from" => strct.s[i] = strct0.s[i]
        /\ op = "to" =>
             \A k \in {f.Name, ToLower(f.Name), <<"-">>} \ ResolvedNames(strct0.typ) :
               /\ k \in DOMAIN sdict <=> k \in DOMAIN sdict0
               /\ k \in DOMAIN sdict0 => sdict[k] = sdict0[k]

\* C10 happens: ToStarlark wrote the four fields of an Over record it does
\* not ignore, without a key or an error for G, a channel; FromStarlark was
\* then given that dictionary, which has a key for an ignored field, and
\* assigned another field.
C10_Witness ==
  /\ op = "from"
  /\ strct0.typ.name = "Over"
  /\ {<<"B">>, <<"N","b">>, <<"S","l">>, <<"M">>} \subseteq DOMAIN sdict0
  /\ <<"G">> \notin DOMAIN sdict0
  /\ \E k \in {<<"I","g">>, <<"u">>, <<"-">>} : k \in DOMAIN sdict0
  /\ errs = <<>>
  /\ strct.s[2] # strct0.s[2]

(***************************************************************************)
(* Embedded records (SpecEmbedded).                                        *)
(***************************************************************************)
\* the Starlark value Encode makes of a Bool, integer or String field
Scalar(v) ==
  CASE v.typ.kind = "bool" -> StarBool(v.n = 1)
    [] v.typ.kind \in NumKinds -> StarInt(v.n)
    [] OTHER -> StarString(v.t)

\* every field of the record inner is in dict under its own name, with the
\* value Encode makes of it
FieldsIn(inner, dict) ==
  \A j \in 1..NumField(inner.typ) :
    LET g == Field(inner.typ, j) IN
    ~Ignored(g) => /\ ResolvedName(g) \in DOMAIN dict
                   /\ dict[ResolvedName(g)] = Scalar(inner.s[j])

\* every field of the record after that a key of dict matches holds the
\* value under that key, and every other field is as in before
FieldsFrom(before, after, dict) ==
  \A j \in 1..NumField(before.typ) :
    LET g == Field(before.typ, j)
        key == KeyOf(g, dict)
    IN
    ~Ignored(g) =>
      IF key # <<>> /\ SupportedFrom(dict[key[1]], g.Type)
      THEN /\ after.typ.kind = "struct"
           /\ after.s[j].n = dict[key[1]].n
           /\ after.s[j].t = dict[key[1]].t
      ELSE key = <<>> => (after.typ.kind = "struct" => after.s[j] = before.s[j])

\* the record a field holds before the call: the pointee, or a zero record
\* for a nil pointer
RecordOf(v) == IF v.typ.kind = "ptr" /\ v.nil THEN Zero(v.typ.elem[1]) ELSE Deref(v)

\* C11 (embedded records, flattened or nested): ToStarlark writes the
\* fields of an embedded record without directive name into the dict of
\* the parent under their own names, and an embedded record with a
\* directive name as one Dict under that name, none of its fields being
\* written at the level of the parent; FromStarlark reads the fields of the
\* first from the dict of the parent, and the fields of the second from the
\* Dict under the directive name only.
C11_EmbeddedFlatOrNested ==
  op \in {"to", "from"} =>
    \A i \in 1..NumField(strct0.typ) :
      LET f == Field(strct0.typ, i)
          name == DirectiveName(f)
          a == strct0.s[i]
      IN
      (f.Anonymous /\ ~Ignored(f) /\ isStructOrPtrType(f.Type)) =>
        /\ (op = "to" /\ Deref(a).typ.kind = "struct" /\ name = <<>>)
             => FieldsIn(Deref(a), sdict)
        /\ (op = "to" /\ Deref(a).typ.kind = "struct" /\ name # <<>>)
             => /\ name \in DOMAIN sdict
                /\ sdict[name].k = "dict"
                /\ FieldsIn(Deref(a), sdict[name].d)
                /\ \A j \in 1..NumField(Deref(a).typ) :
                     LET k == ResolvedName(Field(Deref(a).typ, j)) IN
                     /\ k \in DOMAIN sdict <=> k \in DOMAIN sdict0
                     /\ k \in DOMAIN sdict0 => sdict[k] = sdict0[k]
        /\ (op = "from" /\ name = <<>> /\ HasEv("visit", f.Name) /\ ~FailedAt(f.Name))
             => FieldsFrom(RecordOf(a), Deref(strct.s[i]), sdict0)
        /\ (op = "from" /\ name # <<>> /\ HasEv("visit", f.Name) /\ ~FailedAt(f.Name))
             => IF name \in DOMAIN sdict0 /\ sdict0[name].k = "dict"
                THEN FieldsFrom(RecordOf(a), Deref(strct.s[i]), sdict0[name].d)
                ELSE name \notin DOMAIN sdict0 => strct.s[i] = a

(***************************************************************************)
(* Numbers (SpecNums).                                                     *)
(***************************************************************************)
\* the type a field holds, through one pointer
Held(t) == IF t.kind = "ptr" THEN t.elem[1] ELSE t

\* the last call gave the reason why for its failure at path
FailedWith(why, path) ==
  \E i \in 1..(Len(log) - 1) : log[i] = Ev("fail", path) /\ log[i+1] = Ev(why, path)

\* field i of the record of the last FromStarlark was matched by a key that
\* holds a Starlark value of type k
DecodedFrom(i, k) ==
  LET f == Field(strct0.typ, i)
      key == KeyOf(f, sdict0)
  IN /\ ~Ignored(f) /\ ~Flattened(f)
     /\ key # <<>>
     /\ sdict0[key[1]].k = k
     /\ HasEv("match", f.Name)

\* the Starlark value field i is decoded from
Source(i) == sdict0[KeyOf(Field(strct0.typ, i), sdict0)[1]]

\* C12 (Int into a float): FromStarlark stores an Int i in a float32 or
\* float64 field exactly, without a failure, when |i| <= 2^Mant64 (2^53),
\* and fails with "cannot exactly represent", the field being as it was,
\* when |i| > 2^Mant64.
C12_IntToFloatExact ==
  op = "from" =>
    \A i \in 1..NumField(strct0.typ) :
      LET f == Field(strct0.typ, i) IN
      (Held(f.Type).kind \in FloatKinds /\ DecodedFrom(i, "int")) =>
        IF Abs(Source(i).n) <= 2^Mant64
        THEN /\ ~FailedAt(f.Name)
             /\ Deref(strct.s[i]).typ.kind \in FloatKinds
             /\ Deref(strct.s[i]).n = Source(i).n
             /\ Deref(strct.s[i]).t = Fin
        ELSE /\ FailedWith(Inexact, f.Name)
             /\ strct.s[i] = strct0.s[i]

\* the number field i holds after the last call is the number it held before
SameNumber(i) ==
  /\ Deref(strct.s[i]).n = Deref(strct0.s[i]).n
  /\ Deref(strct.s[i]).t = Deref(strct0.s[i]).t

\* C13 (Float into an integer): FromStarlark assigns a finite Float without
\* fractional part to an integer field of any width when the value is in
\* the range of the field, and else fails with "out of range" and assigns
\* no number; so for a negative value into an unsigned field and for
\* 2^Bits64 (2^64) into a uint64 field.
C13_FloatToIntRange ==
  op = "from" =>
    \A i \in 1..NumField(strct0.typ) :
      LET f == Field(strct0.typ, i)
          kind == Held(f.Type).kind
      IN
      (kind \in NumKinds /\ DecodedFrom(i, "float") /\ Source(i).t = Fin) =>
        IF Source(i).n >= MinInt(kind) /\ Source(i).n <= MaxInt(kind)
        THEN /\ ~FailedAt(f.Name)
             /\ Deref(strct.s[i]).typ.kind = kind
             /\ Deref(strct.s[i]).n = Source(i).n
        ELSE /\ FailedWith(OutOfRange, f.Name)
             /\ SameNumber(i)

NilField(i) ==
  strct0.s[i].typ.kind \in {"ptr", "slice", "map"} /\ strct0.s[i].nil

\* what C15 says of field i
NilAsNone(i) ==
  LET f == Field(strct0.typ, i) IN
  /\ ResolvedName(f) \in DOMAIN sdict
  /\ sdict[ResolvedName(f)] = None
  /\ ~ErrAt(f.Name)

\* C15 as stated (nil encodes as None): after ToStarlark every nil pointer,
\* nil slice or nil map field the walk visited is None under its resolved
\* name and no error is about it, whatever the type pointed to or held.
C15_NilEncodesNone ==
  op = "to" =>
    \A i \in 1..NumField(strct0.typ) :
      LET f == Field(strct0.typ, i) IN
      (~Ignored(f) /\ ~f.Anonymous /\ NilField(i) /\ HasEv("visit", f.Name))
        => NilAsNone(i)

\* C15 as amended: so it is unless the field is a pointer to a pointer; a
\* nil pointer to a pointer is an unsupported type: without a cap None is
\* written under its name and a type error is returned for it.
C15_NilEncodesNoneOneLevel ==
  op = "to" =>
    \A i \in 1..NumField(strct0.typ) :
      LET f == Field(strct0.typ, i)
          twoLevels == f.Type.kind = "ptr" /\ f.Type.elem[1].kind = "ptr"
      IN
      (~Ignored(f) /\ ~f.Anonymous /\ NilField(i) /\ HasEv("visit", f.Name))
        => /\ ~twoLevels => NilAsNone(i)
           /\ (twoLevels /\ maxErrs = 0)
                => /\ sdict[ResolvedName(f)] = None
                   /\ \E j \in 1..Len(errs) : errs[j] = TypeErr("to", f.Name)

\* C15 happens: ToStarlark was given the record of nil fields and a dict
\* that held other values under P, Sl and M: the nil pointers to an int8,
\* to a channel, to a slice, to a map and to a record, the nil slice and the
\* nil map are None, and the only error is about the pointer to a pointer.
C15_Witness ==
  /\ op = "to"
  /\ strct0 = Zero(TStruct("Seq"))
  /\ maxErrs = 0
  /\ \E k \in {<<"P">>, <<"S","l">>, <<"M">>} :
       k \in DOMAIN sdict0 /\ sdict0[k] # None
  /\ \A k \in {<<"P">>, <<"P","c">>, <<"S","l">>, <<"P","s">>, <<"M">>,
                <<"M","p">>, <<"Q">>} : sdict[k] = None
  /\ ErrPaths = << <<"P","P">> >>

\* C16 (None): FromStarlark assigns nil to a pointer, slice or map field
\* that None is decoded into, whatever it held; for a field of another
\* kind it records a type error at the path of the field, leaves the field
\* as it was, and (without a cap) goes on to the fields that follow.
C16_NoneDecodes ==
  op = "from" =>
    \A i \in 1..NumField(strct0.typ) :
      LET f == Field(strct0.typ, i) IN
      DecodedFrom(i, "NoneType") =>
        IF f.Type.kind \in {"ptr", "slice", "map"}
        THEN /\ strct.s[i] = Zero(f.Type)
             /\ ~FailedAt(f.Name)
        ELSE /\ strct.s[i] = strct0.s[i]
             /\ maxErrs = 0 =>
                  /\ \E j \in 1..Len(errs) : errs[j] = TypeErr("from", f.Name)
                  /\ \A k \in (i+1)..NumField(strct0.typ) :
                       ~Ignored(Field(strct0.typ, k))
                         => HasEv("visit", Field(strct0.typ, k).Name)

\* the Go value of type typ a Bool, Int or String member is decoded to
Member(v, typ) == [Zero(typ) EXCEPT !.n = v.n, !.t = v.t]

\* every member of the sequence or set v converts to the type typ
AllSupported(v, typ) == \A j \in 1..Len(v.s) : SupportedFrom(v.s[j], typ)

\* C17 (a sequence replaces the slice): after FromStarlark decoded a List,
\* Tuple or Set of n members that convert to the element type into a slice
\* field, directly or through one pointer, the slice is not nil, has n
\* elements, and element i is member i in iteration order, whatever it
\* held before; with n = 0 it is a new slice, of capacity 0.
C17_SequenceReplaces ==
  op = "from" =>
    \A i \in 1..NumField(strct0.typ) :
      LET f == Field(strct0.typ, i)
          sl == Deref(strct.s[i])
      IN
      (/\ Held(f.Type).kind = "slice"
       /\ \E k \in {"list", "tuple", "set"} : DecodedFrom(i, k)
       /\ AllSupported(Source(i), Held(f.Type).elem[1]))
        => /\ ~FailedAt(f.Name)
           /\ sl.typ = Held(f.Type)
           /\ ~sl.nil
           /\ Len(sl.s) = Len(Source(i).s)
           /\ \A j \in 1..Len(sl.s) :
                sl.s[j] = Member(Source(i).s[j], Held(f.Type).elem[1])
           /\ Len(Source(i).s) = 0 => sl.c = 0

\* C17 happens: the slice Sl held 1, 2, 9 and a List of one member was
\* decoded into it, and the slice behind the pointer Ps held a string or
\* was nil and the empty Set was decoded into it.
C17_Witness ==
  /\ op = "from"
  /\ strct0.typ.name = "Seq"
  /\ Len(strct0.s[4].s) = 3
  /\ DecodedFrom(4, "list") /\ Len(Source(4).s) = 1
  /\ strct.s[4].s = <<GoInt8(4)>>
  /\ DecodedFrom(6, "set") /\ Source(6).s = <<>>
  /\ ~strct.s[6].nil /\ ~strct.s[6].s[1].nil /\ strct.s[6].s[1].s = <<>>

\* the entries of the map a field holds, through a pointer (none when the
\* pointer or the map is nil)
EntriesOf(v) == IF Deref(v).typ.kind = "map" THEN Deref(v).m ELSE {}

\* the keys of type typ the members of the Set v are decoded to
KeysFrom(v, typ) == { Member(v.s[j], typ) : j \in 1..Len(v.s) }

\* C18 (a Set adds to a set-shaped map): after FromStarlark decoded a Set
\* whose members convert to the key type into a map[T]bool field, directly
\* or through one pointer, the map holds every member as a key of value
\* true and every entry it held before under another key, with its value,
\* and nothing else; a map was allocated exactly when there was none.
C18_SetAddsToMap ==
  op = "from" =>
    \A i \in 1..NumField(strct0.typ) :
      LET f == Field(strct0.typ, i)
          keys == KeysFrom(Source(i), Held(f.Type).elem[1])
      IN
      (/\ isSetMapType(Held(f.Type))
       /\ DecodedFrom(i, "set")
       /\ AllSupported(Source(i), Held(f.Type).elem[1]))
        => /\ ~FailedAt(f.Name)
           /\ Deref(strct.s[i]).typ = Held(f.Type)
           /\ ~Deref(strct.s[i]).nil
           /\ EntriesOf(strct.s[i])
                = {x \in EntriesOf(strct0.s[i]) : x.key \notin keys}
                  \cup {[key |-> k, val |-> TRUE] : k \in keys}
           /\ HasEv("alloc", f.Name) <=> Deref(strct0.s[i]).nil

\* C18 happens: the map M held b (true) and c (false), the Set of a and c
\* was decoded into it, and it is the same map, holding a, b and c, all
\* true.
C18_Witness ==
  /\ op = "from"
  /\ strct0.typ.name = "Seq"
  /\ Cardinality(EntriesOf(strct0.s[7])) = 2
  /\ DecodedFrom(7, "set") /\ Len(Source(7).s) = 2
  /\ Cardinality(EntriesOf(strct.s[7])) = 3
  /\ \A x \in EntriesOf(strct.s[7]) : x.val
  /\ ~HasEv("alloc", Field(strct0.typ, 7).Name)

(***************************************************************************)
(* Round trips (SpecRoundTrip).                                            *)
(***************************************************************************)
\* require.Equal(t, a, b), that is reflect.DeepEqual: pointers are followed,
\* a nil slice or map differs from an empty one, the capacity of a slice
\* does not count
RECURSIVE DeepEqual(_, _)
DeepEqual(a, b) ==
  /\ a.typ = b.typ
  /\ CASE a.typ.kind \in {"ptr", "slice", "struct"} ->
            /\ a.nil = b.nil
            /\ Len(a.s) = Len(b.s)
            /\ \A j \in 1..Len(a.s) : DeepEqual(a.s[j], b.s[j])
       [] a.typ.kind = "map" -> a.nil = b.nil /\ a.m = b.m
       [] OTHER -> a = b

\* the options of the directive of a field
Options(f) == LET raw == Cut(f.Tag, ",")[2]
              IN IF raw # <<>> THEN Split(raw, ",") ELSE <<>>

\* field i of the record r is a set-shaped map with an entry of value false
FalseEntry(r, i) == \E x \in EntriesOf(r.s[i]) : ~x.val

\* field i of the record r is a slice encoded as a Set that holds the same
\* element twice
TwiceInSet(r, i) ==
  /\ current(Options(Field(r.typ, i))) = asset
  /\ \E j, k \in 1..Len(Deref(r.s[i]).s) :
       j # k /\ Deref(r.s[i]).s[j] = Deref(r.s[i]).s[k]

\* field i of the record r is a pointer to a nil slice or a nil map
PointsToNil(r, i) ==
  /\ r.s[i].typ.kind = "ptr" /\ ~r.s[i].nil
  /\ r.s[i].s[1].typ.kind \in {"slice", "map"} /\ r.s[i].s[1].nil

RecordOrPointer(v) ==
  v.typ.kind = "struct" \/ (isStructPtrType(v.typ) /\ ~v.nil)

\* the call was aborted before any field was visited or any key written
AbortedAtOnce == panic = "precondition" /\ log = <<>> /\ sdict = sdict0

\* C20 (the argument of ToStarlark): ToStarlark walks the fields of its
\* argument when it is a record or a pointer of one level to a record; for
\* any other argument (nil, a value that is no record, a pointer to one, a
\* nil pointer, a pointer of two levels) it panics before it visits a field,
\* and the destination is left as it was.
C20_EncodePrecondition ==
  op = "to" =>
    IF RecordOrPointer(strct0) THEN panic # "precondition"
    ELSE AbortedAtOnce

(***************************************************************************)
(* The destination of FromStarlark (SpecDst).                              *)
(***************************************************************************)
\* the destination is a pointer, not nil, to a record
PointerToRecord(v) == isStructPtrType(v.typ) /\ ~v.nil

\* C21 (the destination of FromStarlark): a call of FromStarlark whose
\* destination is nil, is no pointer to a record or is a nil pointer to a
\* record panics with no field visited, no error collected and the record
\* of the caller as it was; a call with a pointer to a record does not
\* panic so.
C21_DecodePrecondition ==
  [][op' = "from" =>
       IF PointerToRecord(strct0') THEN panic' # "precondition"
       ELSE /\ panic' = "precondition"
            /\ log' = <<>>
            /\ errs' = <<>>
            /\ strct' = strct]_vars

\* C21 happens: FromStarlark was called with a nil pointer to a record and
\* a dictionary with a key, and panicked.
C21_Witness ==
  /\ op = "from"
  /\ isStructPtrType(strct0.typ) /\ strct0.nil
  /\ DOMAIN sdict0 # {}
  /\ panic = "precondition"

(***************************************************************************)
(* Fields of one name (Spec).                                              *)
(***************************************************************************)
\* field i of the record type typ is written by Encode under a name of its
\* own
Named(typ, i) == ~Ignored(Field(typ, i)) /\ ~Flattened(Field(typ, i))

\* what Encode makes of the value v of the field f, taken alone
EncodedAlone(f, v) ==
  convertGoValue(f.Name, v, Options(f), NewEncoder("up")).sval

\* C22 (the last write wins): after ToStarlark walked a record in which
\* several fields resolve to one name, the destination holds under that
\* name the encoded value of the last of them in the order of declaration,
\* and no error is about any of them.
C22_LastWriteWins ==
  (op = "to" /\ panic = "" /\ ~Capped) =>
    \A i, j \in 1..NumField(strct0.typ) :
      LET fi == Field(strct0.typ, i)
          fj == Field(strct0.typ, j)
      IN
      (/\ i < j
       /\ Named(strct0.typ, i) /\ Named(strct0.typ, j)
       /\ ResolvedName(fi) = ResolvedName(fj)
       /\ \A k \in (j+1)..NumField(strct0.typ) :
            Named(strct0.typ, k) => ResolvedName(Field(strct0.typ, k)) # ResolvedName(fj))
        => /\ ResolvedName(fj) \in DOMAIN sdict
           /\ sdict[ResolvedName(fj)] = EncodedAlone(fj, strct0.s[j])
           /\ ~ErrAt(fi.Name) /\ ~ErrAt(fj.Name)

\* C22 happens: the record Over, whose fields I (5) and Nb (a pointer to 7)
\* both resolve to Nb, was encoded into a dictionary that held another
\* value under Nb, and the dictionary holds 7 under Nb.
C22_Witness ==
  /\ op = "to" /\ panic = "" /\ errs = <<>>
  /\ strct0.typ.name = "Over"
  /\ strct0.s[2].n = 5
  /\ <<"N","b">> \in DOMAIN sdict0 /\ sdict0[<<"N","b">>] # StarInt(7)
  /\ sdict[<<"N","b">>] = StarInt(7)

(***************************************************************************)
(* Custom converters (SpecCustom).                                         *)
(***************************************************************************)
\* an error of kind kind at path is in the list of the last call
\* a panic other than the signal of the cap was raised in the last call
Raised == \E i \in 1..Len(log) : log[i].ev = "panic"

HasErr(kind, path) ==
  \E i \in 1..Len(errs) : errs[i].kind = kind /\ errs[i].path = path

\* the walk of the last call went on after field i: the next field that is
\* not skipped was visited
WentOnAfter(typ, i) ==
  \A k \in (i+1)..NumField(typ) :
    (~Ignored(Field(typ, k))
     /\ \A m \in (i+1)..(k-1) : Ignored(Field(typ, m)))
      => HasEv("visit", Field(typ, k).Name)

\* the call of ToStarlark without a converter, on the record and the
\* destination of the last call
PlainTo == ToStarlark(strct0, sdict0, maxErrs, "up")

\* the last name of the fields of typ that resolve to the name of field i
LastOfName(typ, i) ==
  \A k \in (i+1)..NumField(typ) :
    Named(typ, k) => ResolvedName(Field(typ, k)) # ResolvedName(Field(typ, i))

\* C23 for ToStarlark, field i: an error of the converter is collected with
\* the path of the field and the walk goes on; a value of the converter is
\* stored; a field the converter leaves alone ends as in a call without a
\* converter
CustomToField(i) ==
  LET f == Field(strct0.typ, i)
      h == customTo(f.Name, strct0.s[i], Options(f))
      name == ResolvedName(f)
  IN
  /\ h.err => /\ HasErr("CustomConvError", f.Name)
              /\ ~HasErr("TypeError", f.Name)
              /\ WentOnAfter(strct0.typ, i)
  /\ h.handled => /\ sdict[name] = h.sval
                  /\ ~ErrAt(f.Name)
  /\ (~h.err /\ ~h.handled) =>
       /\ sdict[name] = PlainTo.dst[name]
       /\ \A kind \in {"TypeError", "StarlarkContainerError"} :
            HasErr(kind, f.Name)
              <=> \E j \in 1..Len(PlainTo.errs) :
                    PlainTo.errs[j] = [kind |-> kind, op |-> "to", path |-> f.Name]
       /\ ~HasErr("CustomConvError", f.Name)

\* what the built-in conversion alone makes of the value v for the field
\* at path that holds fld
PlainFrom(path, v, fld) ==
  fromStarlarkValue(path, v, fld, NewDecoder("wrap"))

\* C23 for FromStarlark, the value v decoded into the slot that held fld
\* and holds now at path: an error of the converter is collected with the
\* path and the slot is left; the converter's value is in the slot; a slot
\* the converter leaves alone ends as the built-in conversion alone leaves
\* it, with the same failure
CustomFromSlot(path, v, fld, now) ==
  LET h == customFrom(path, v, fld) IN
  /\ h.err => /\ HasErr("CustomConvError", path)
              /\ ~HasErr("TypeError", path)
              /\ ~HasEv("fail", path)
              /\ now = fld
  /\ h.handled => now = h.val /\ ~ErrAt(path) /\ ~HasEv("fail", path)
  /\ (~h.err /\ ~h.handled /\ fld.typ.kind # "slice") =>
       /\ now = PlainFrom(path, v, fld).val
       /\ HasErr("TypeError", path) <=> PlainFrom(path, v, fld).d.errs # <<>>
       /\ HasEv("fail", path) <=> PlainFrom(path, v, fld).err
       /\ ~HasErr("CustomConvError", path)

\* C23 for FromStarlark, field i, matched by a key: the field itself, and
\* every element of a slice decoded from a List, whose slot held the zero
\* value
CustomFromField(i) ==
  LET f == Field(strct0.typ, i) IN
  /\ CustomFromSlot(f.Name, Source(i), strct0.s[i], strct.s[i])
  /\ customFrom(f.Name, Source(i), strct0.s[i]).err => WentOnAfter(strct0.typ, i)
  /\ (f.Type.kind = "slice" /\ Source(i).k = "list") =>
       /\ Len(strct.s[i].s) = Len(Source(i).s)
       /\ \A j \in 1..Len(Source(i).s) :
            CustomFromSlot(IndexPath(f.Name, j - 1), Source(i).s[j],
                           Zero(f.Type.elem[1]), strct.s[i].s[j])

FailedTo(i) ==
  \/ HasErr("TypeError", Field(strct0.typ, i).Name)
  \/ HasErr("CustomConvError", Field(strct0.typ, i).Name)

\* the destination has under name what it had before the last call
AsBefore(name) ==
  IF name \in DOMAIN sdict0
  THEN name \in DOMAIN sdict /\ sdict[name] = sdict0[name]
  ELSE name \notin DOMAIN sdict

InitOptions == InitOf(DeepRecords, {0, MaxCap})
SpecOptions == InitOptions /\ [][Next]_vars

\* the j-th option of a directive, <<>> when it has fewer
OptAt(opts, j) == IF j <= Len(opts) THEN opts[j] ELSE <<>>

\* the shape the j-th option asks for
ShapeAt(opts, j) ==
  IF OptAt(opts, j) = astuple THEN "tuple"
  ELSE IF OptAt(opts, j) = asset THEN "set"
  ELSE "list"

\* the Go value gv is a byte slice that the j-th option leaves a byte
\* sequence (the option is none of aslist, astuple and asset)
ByteLeaf(gv, opts, j) ==
  isByteSliceType(gv.typ) /\ OptAt(opts, j) \notin {aslist, astuple, asset}

\* The Starlark value sv is the Go value gv at nesting level j of a field
\* with the options opts: a pointer is looked through at the same level, a
\* nil pointer or slice is None, a slice has the shape of option j and its
\* elements are at level j+1 (a Set holds each element once, and lacks one
\* only where an error tells that the Set refused it), a string is a Bytes
\* under asbytes and a String otherwise, a byte sequence a String under
\* asstring and a Bytes otherwise.
RECURSIVE Shaped(_, _, _, _, _)
Shaped(sv, gv, opts, j, path) ==
  IF gv.nil THEN sv = None
  ELSE IF gv.typ.kind = "ptr" THEN Shaped(sv, gv.s[1], opts, j, path)
  ELSE IF gv.typ.kind = "string"
  THEN sv = IF OptAt(opts, j) = asbytes THEN StarBytes(gv.t) ELSE StarString(gv.t)
  ELSE IF ByteLeaf(gv, opts, j)
  THEN /\ sv.k = IF OptAt(opts, j) = asstring THEN "string" ELSE "bytes"
       /\ sv.t = [m \in 1..Len(gv.s) |-> ByteChar(gv.s[m].n)]
  ELSE IF gv.typ.kind = "slice"
  THEN /\ sv.k = ShapeAt(opts, j)
       /\ IF sv.k = "set"
          THEN /\ \A x \in 1..Len(sv.s) : \E m \in 1..Len(gv.s) :
                    Shaped(sv.s[x], gv.s[m], opts, j + 1, IndexPath(path, m - 1))
               /\ \A m \in 1..Len(gv.s) :
                    \/ \E x \in 1..Len(sv.s) :
                         Shaped(sv.s[x], gv.s[m], opts, j + 1, IndexPath(path, m - 1))
                    \/ ErrAt(IndexPath(path, m - 1))
               /\ \A x, y \in 1..Len(sv.s) : sv.s[x] = sv.s[y] => x = y
          ELSE /\ Len(sv.s) = Len(gv.s)
               /\ \A m \in 1..Len(gv.s) :
                    Shaped(sv.s[m], gv.s[m], opts, j + 1, IndexPath(path, m - 1))
  ELSE FALSE

\* the number of slice levels of a type, pointers looked through
RECURSIVE Levels(_)
Levels(t) ==
  IF t.kind = "ptr" THEN Levels(t.elem[1])
  ELSE IF t.kind = "slice" THEN 1 + Levels(t.elem[1])
  ELSE 0

\* C25 (options shift one position per level): after ToStarlark, every
\* field of nested slices that the call wrote holds in the destination a
\* value whose nesting level j has the shape of the j-th option of the
\* field's directive alone (Tuple for astuple, Set for asset, List for
\* aslist, for no option and for any other option), whose leaves are
\* converted under the option after the last level, and in which a pointer
\* takes no option.
C25_OptionsShift ==
  (op = "to" /\ panic = "") =>
    \A i \in 1..NumField(strct0.typ) :
      LET f == Field(strct0.typ, i) IN
      (Named(strct0.typ, i) /\ LastOfName(strct0.typ, i) /\ Levels(f.Type) > 0
         /\ HasEv("write", f.Name))
        => /\ ResolvedName(f) \in DOMAIN sdict
           /\ Shaped(sdict[ResolvedName(f)], strct0.s[i], Options(f), 1, f.Name)

\* C25 happens: a record whose [][]string field A (`a,astuple,asset,asbytes`)
\* holds two equal slices of "a", "b" and a nil slice was encoded: A is a
\* Tuple of two Sets of the Bytes "a", "b" and of None; the same slices
\* under no option (C) are a List of Lists of Strings; the *[]*[]string
\* field E (`e,asset,astuple,asbytes`) is a Set of the Tuple of Bytes "a",
\* "a", of None and of the Tuple of Bytes "b", and the [][][]string field F
\* (`f,aslist,asset,astuple`) a List of Sets of Tuples of Strings.
C25_Witness ==
  /\ op = "to" /\ panic = "" /\ strct0.typ.name = "Deep"
  /\ Len(strct0.s[1].s) = 3
  /\ <<"a">> \in DOMAIN sdict
  /\ sdict[<<"a">>] =
       StarTuple(<<StarSet(<<StarBytes(<<"a">>), StarBytes(<<"b">>)>>),
                   StarSet(<<StarBytes(<<"a">>), StarBytes(<<"b">>)>>), None>>)
  /\ <<"C">> \in DOMAIN sdict
  /\ sdict[<<"C">>] =
       StarList(<<StarList(<<Str(<<"a">>), Str(<<"b">>)>>),
                  StarList(<<Str(<<"a">>), Str(<<"b">>)>>), None>>)
  /\ <<"e">> \in DOMAIN sdict
  /\ sdict[<<"e">>] =
       StarSet(<<StarTuple(<<StarBytes(<<"a">>), StarBytes(<<"a">>)>>), None,
                 StarTuple(<<StarBytes(<<"b">>)>>)>>)
  /\ <<"f">> \in DOMAIN sdict
  /\ sdict[<<"f">>] =
       StarList(<<StarSet(<<StarTuple(<<Str(<<"a">>)>>)>>),
                  StarSet(<<StarTuple(<<Str(<<"b">>), Str(<<"c">>)>>)>>)>>)

(***************************************************************************)
(* A call followed step by step (SpecWalk).  The records are of the type   *)
(* Node { V int8; Next *Node } and are held by address: heap.go[a] is the  *)
(* record at address a, its Next the address of another record or 0 for    *)
(* nil, so that a record can refer back to itself.  heap.star[a] is the    *)
(* dictionary at address a; it holds an Int under V and may hold under     *)
(* Next a dictionary, itself for one.  A frame of the stack is one         *)
(* activation of walkStructEncode or walkStructDecode: the record and the  *)
(* dictionary it works on, the field i its loop is at, didSet and path.    *)
(***************************************************************************)
NodeT == TStruct("Node")

\* a Dict as a value: the reference to the dictionary at address a
StarRef(a) == SV("dict", a, <<>>, <<>>, EmptyDict)

\* var n Node
ZeroNode == [V |-> 0, Next |-> 0]

\* the records before the call: 1 to MaxNodes records, each with a Next
\* that is nil or the address of any of them
NodeHeaps ==
  UNION { { [a \in 1..n |-> [V |-> a, Next |-> nx[a]]] : nx \in [1..n -> 0..n] } :
          n \in 1..MaxNodes }

\* the dictionaries before the call: 1 to MaxNodes dictionaries, each with
\* an Int under V and, under Next, nothing or any of them
DictHeaps ==
  UNION { { [a \in 1..n |->
               IF nx[a] = 0 THEN (<<"V">> :> StarInt(a + 2))
               ELSE (<<"V">> :> StarInt(a + 2))
                      @@ (<<"N","e","x","t">> :> StarRef(nx[a]))] :
            nx \in [1..n -> 0..n] } :
          n \in 1..MaxNodes }

InitWalk ==
  /\ strct = Zero(NodeT)
  /\ sdict = EmptyDict
  /\ maxErrs = 0
  /\ calls = 0
  /\ op = "none"
  /\ errs = <<>>
  /\ panic = ""
  /\ log = <<>>
  /\ strct0 = strct
  /\ sdict0 = sdict
  /\ heap \in [go : NodeHeaps, star : DictHeaps]
  /\ stack = <<>>

Frame(fn, node, dict, i, didSet, path) ==
  [fn |-> fn, node |-> node, dict |-> dict, i |-> i, didSet |-> didSet,
   path |-> path]

\* the frame that is running, and the one that called it
Top == stack[Len(stack)]
Caller == stack[Len(stack) - 1]

\* strct.Field(i) of the record at address a, for the fields that hold no
\* record: V, and Next when it is nil
FieldOf(a, i) ==
  IF Field(NodeT, i).Type.kind = "ptr" THEN GoNil(Field(NodeT, i).Type)
  ELSE GoInt8(heap.go[a].V)

\* the frame that is running is at field i of its loop, in a call of fn
AtField(fn) ==
  /\ stack # <<>> /\ panic = ""
  /\ Top.fn = fn /\ Top.i <= NumField(NodeT)

\* the loop of the frame that is running goes on with the next field
Continue(stk) == [stk EXCEPT ![Len(stk)].i = @ + 1]

\* ToStarlark(&heap.go[1], dst) with a new, empty dst: the first frame
BeginEncode ==
  /\ stack = <<>> /\ panic = "" /\ calls = 0
  /\ heap' = [heap EXCEPT !.star = Append(@, EmptyDict)]
  /\ stack' = <<Frame("encode", 1, Len(heap.star) + 1, 1, FALSE, <<>>)>>
  /\ op' = "to"
  /\ calls' = calls + 1
  /\ UNCHANGED <<strct, sdict, maxErrs, errs, panic, log, strct0, sdict0>>

\* walkStructEncode at a field that holds no record (V, or a nil Next):
\* toStarlarkValue converts it and stores it in the dictionary of the frame
EncodeValue ==
  /\ AtField("encode")
  /\ LET f == Field(NodeT, Top.i)
         p == FieldPath(Top.path, f.Name)
         store(r) == heap' = [heap EXCEPT !.star[Top.dict] = r.dst]
     IN /\ f.Type.kind = "ptr" => heap.go[Top.node].Next = 0
        /\ store(toStarlarkValue(p, ResolvedName(f), FieldOf(Top.node, Top.i),
                                 heap.star[Top.dict], Options(f), NewEncoder("up")))
        /\ log' = Append(log, Ev("visit", p))
  /\ stack' = Continue(stack)
  /\ UNCHANGED <<strct, sdict, maxErrs, calls, op, errs, panic, strct0, sdict0>>

\* walkStructEncode at a Next that points to a record: convertGoValue makes
\* a new dictionary and calls walkStructEncode on the record (a new frame)
EncodeDescend ==
  /\ AtField("encode")
  /\ Field(NodeT, Top.i).Type.kind = "ptr" /\ heap.go[Top.node].Next # 0
  /\ Len(stack) < MaxStack
  /\ LET p == FieldPath(Top.path, Field(NodeT, Top.i).Name)
     IN /\ heap' = [heap EXCEPT !.star = Append(@, EmptyDict)]
        /\ stack' = Append(stack, Frame("encode", heap.go[Top.node].Next,
                                        Len(heap.star) + 1, 1, FALSE, p))
        /\ log' = Append(log, Ev("visit", p))
  /\ UNCHANGED <<strct, sdict, maxErrs, calls, op, errs, panic, strct0, sdict0>>

\* the same call when the stack is full: the runtime ends the program, the
\* call does not return
EncodeOverflow ==
  /\ AtField("encode")
  /\ Field(NodeT, Top.i).Type.kind = "ptr" /\ heap.go[Top.node].Next # 0
  /\ Len(stack) >= MaxStack
  /\ panic' = "stack overflow"
  /\ UNCHANGED <<strct, sdict, maxErrs, calls, op, errs, log, strct0, sdict0,
                 heap, stack>>

\* walkStructEncode returns: convertGoValue returns the dictionary and
\* toStarlarkValue stores it in the dictionary of the caller, whose loop
\* goes on; the first frame returns to the caller of ToStarlark
EncodeReturn ==
  /\ stack # <<>> /\ panic = ""
  /\ Top.fn = "encode" /\ Top.i > NumField(NodeT)
  /\ IF Len(stack) = 1
     THEN /\ stack' = <<>>
          /\ UNCHANGED <<heap, log>>
     ELSE /\ heap' = [heap EXCEPT !.star[Caller.dict] =
                        SetKey(@, ResolvedName(Field(NodeT, Caller.i)),
                               StarRef(Top.dict))]
          /\ stack' = Continue(SubSeq(stack, 1, Len(stack) - 1))
          /\ log' = Append(log, Ev("write", Top.path))
  /\ UNCHANGED <<strct, sdict, maxErrs, calls, op, errs, panic, strct0, sdict0>>

\* FromStarlark(heap.star[1], &heap.go[1]): the first frame
BeginDecode ==
  /\ stack = <<>> /\ panic = "" /\ calls = 0
  /\ stack' = <<Frame("decode", 1, 1, 1, FALSE, <<>>)>>
  /\ op' = "from"
  /\ calls' = calls + 1
  /\ UNCHANGED <<strct, sdict, maxErrs, errs, panic, log, strct0, sdict0, heap>>

\* the value walkStructDecode finds for the field its loop is at
Matching == lookup(heap.star[Top.dict], ResolvedName(Field(NodeT, Top.i)),
                   DirectiveName(Field(NodeT, Top.i)) = <<>>)

\* walkStructDecode at a field without a matching key: the field is left
DecodeSkip ==
  /\ AtField("decode")
  /\ ~Matching.ok
  /\ stack' = Continue(stack)
  /\ log' = Append(log, Ev("visit", FieldPath(Top.path, Field(NodeT, Top.i).Name)))
  /\ UNCHANGED <<strct, sdict, maxErrs, calls, op, errs, panic, strct0, sdict0,
                 heap>>

\* walkStructDecode at V with a matching value: fromStarlarkValue sets it
DecodeValue ==
  /\ AtField("decode")
  /\ Matching.ok /\ Matching.val.k # "dict"
  /\ Field(NodeT, Top.i).Type.kind = "int8"
  /\ LET p == FieldPath(Top.path, Field(NodeT, Top.i).Name)
         set(r) == heap' = [heap EXCEPT !.go[Top.node].V = r.val.n]
     IN /\ set(fromStarlarkValue(p, Matching.val, FieldOf(Top.node, Top.i),
                                 NewDecoder("wrap")))
        /\ log' = Append(log, Ev("visit", p))
  /\ stack' = Continue([stack EXCEPT ![Len(stack)].didSet = TRUE])
  /\ UNCHANGED <<strct, sdict, maxErrs, calls, op, errs, panic, strct0, sdict0>>

\* walkStructDecode at Next with a matching Dict: setFieldDict takes the
\* record Next points to, or allocates one when Next is nil, and calls
\* walkStructDecode on it with the Dict (a new frame)
DecodeDescend ==
  /\ AtField("decode")
  /\ Matching.ok /\ Matching.val.k = "dict"
  /\ isStructPtrType(Field(NodeT, Top.i).Type)
  /\ Len(stack) < MaxStack
  /\ LET p == FieldPath(Top.path, Field(NodeT, Top.i).Name)
         next == heap.go[Top.node].Next
         fld == IF next = 0 THEN Len(heap.go) + 1 ELSE next
     IN /\ heap' = IF next = 0 THEN [heap EXCEPT !.go = Append(@, ZeroNode)]
                   ELSE heap
        /\ stack' = Append([stack EXCEPT ![Len(stack)].didSet = TRUE],
                           Frame("decode", fld, Matching.val.n, 1, FALSE, p))
        /\ log' = Append(log, Ev("visit", p))
  /\ UNCHANGED <<strct, sdict, maxErrs, calls, op, errs, panic, strct0, sdict0>>

\* the same call when the stack is full
DecodeOverflow ==
  /\ AtField("decode")
  /\ Matching.ok /\ Matching.val.k = "dict"
  /\ isStructPtrType(Field(NodeT, Top.i).Type)
  /\ Len(stack) >= MaxStack
  /\ panic' = "stack overflow"
  /\ UNCHANGED <<strct, sdict, maxErrs, calls, op, errs, log, strct0, sdict0,
                 heap, stack>>

\* walkStructDecode returns didSet: setFieldDict sets the pointer of the
\* caller when something was set, and the loop of the caller goes on; the
\* first frame returns to the caller of FromStarlark
DecodeReturn ==
  /\ stack # <<>> /\ panic = ""
  /\ Top.fn = "decode" /\ Top.i > NumField(NodeT)
  /\ IF Len(stack) = 1
     THEN /\ stack' = <<>>
          /\ UNCHANGED heap
     ELSE /\ heap' = IF Top.didSet
                     THEN [heap EXCEPT !.go[Caller.node].Next = Top.node]
                     ELSE heap
          /\ stack' = Continue(SubSeq(stack, 1, Len(stack) - 1))
  /\ UNCHANGED <<strct, sdict, maxErrs, calls, op, errs, panic, log, strct0,
                 sdict0>>

NextWalk ==
  \/ BeginEncode \/ EncodeValue \/ EncodeDescend \/ EncodeOverflow
  \/ EncodeReturn
  \/ BeginDecode \/ DecodeSkip \/ DecodeValue \/ DecodeDescend
  \/ DecodeOverflow \/ DecodeReturn

\* the goroutine of the call is scheduled: a step that can be taken is taken
SpecWalk == InitWalk /\ [][NextWalk]_vars /\ WF_vars(NextWalk)

\* C26 (termination): every Encode and every Decode call that has begun
\* returns, also on a record whose Next refers back to an enclosing record
\* and on a source dictionary that contains itself.
C26_Terminates == (stack # <<>>) ~> (stack = <<>>)

(***************************************************************************)
(* Panics (SpecPanics): the calls on the records Pan.  ToStarlark panics   *)
(* in reflect (NumField of a pointer type) when walkStructEncode is given  *)
(* the embedded *In; FromStarlark panics in starlark.AsInt when an Int     *)
(* meets the field L of the named type Level.                              *)
(***************************************************************************)
InitPanics == InitOf(PanRecords, {0, MaxCap})
SpecPanics == InitPanics /\ [][Next]_vars

\* C27 (only the signal of the cap is recovered): a call in whose walk a
\* panic other than the signal of the cap was raised does not return: the
\* panic reaches the caller of ToStarlark and of FromStarlark.
C27_OnlyCapRecovered ==
  (op \in {"to", "from"} /\ Raised) => panic # ""

(***************************************************************************)
(* The list of errors (SpecCaps): the calls with a cap below zero, of      *)
(* zero and above zero.                                                    *)
(***************************************************************************)
InitCaps == InitOf(Records, (0 - 1)..MaxCap)
SpecCaps == InitCaps /\ [][Next]_vars

\* the appends to the list of errors of the last call, in their order: a
\* field error ("err") or the sentinel ("max")
Appends == SelectSeq(log, LAMBDA x : x.ev \in {"err", "max"})

\* C28 (the list of errors): with a cap N > 0 the list of errors of a call
\* never has more than N+1 entries, holds the sentinel at most once and only
\* as its last entry, and nothing is appended after the sentinel; with a cap
\* of zero or less the sentinel never appears.  The list only grows by
\* appends, which the log holds in their order: what holds of the whole
\* list of appends holds of the list at every point of the call.
C28_ErrorList ==
  op \in {"to", "from"} =>
    /\ maxErrs > 0 =>
         /\ Len(errs) <= maxErrs + 1
         /\ \A i \in 1..Len(errs) : errs[i] = ErrMax => i = Len(errs)
         /\ Len(Appends) <= maxErrs + 1
         /\ \A i \in 1..Len(Appends) : Appends[i].ev = "max" => i = Len(Appends)
    /\ maxErrs <= 0 =>
         /\ \A i \in 1..Len(errs) : errs[i] # ErrMax
         /\ \A i \in 1..Len(Appends) : Appends[i].ev # "max"

\* C28 happens: ToStarlark with a cap of 2 returned two field errors and
\* then the sentinel.
C28_Witness ==
  /\ op = "to" /\ maxErrs = 2
  /\ Len(errs) = 3 /\ errs[3] = ErrMax
  /\ errs[1] # ErrMax /\ errs[2] # ErrMax
  /\ Len(Appends) = 3

(***************************************************************************)
(* The order of a map (SpecKeys): the calls on the records with set-shaped *)
(* maps.  A call takes the entries of a map in one of the orders Go may    *)
(* choose.                                                                 *)
(***************************************************************************)
InitKeys == InitOf(KeyRecords, 0..MaxCap)
SpecKeys == InitKeys /\ [][Next]_vars

\* two Starlark values are equal (starlark.Equal): a Set holds the same
\* members whatever their order
RECURSIVE SameValue(_, _)
SameValue(a, b) ==
  IF a.k # b.k THEN FALSE
  ELSE IF a.k = "set"
  THEN /\ Len(a.s) = Len(b.s)
       /\ \A i \in 1..Len(a.s) : \E j \in 1..Len(b.s) : SameValue(a.s[i], b.s[j])
       /\ \A j \in 1..Len(b.s) : \E i \in 1..Len(a.s) : SameValue(a.s[i], b.s[j])
  ELSE IF a.k \in {"list", "tuple"}
  THEN /\ Len(a.s) = Len(b.s)
       /\ \A i \in 1..Len(a.s) : SameValue(a.s[i], b.s[i])
  ELSE IF a.k = "dict"
  THEN /\ DOMAIN a.d = DOMAIN b.d
       /\ \A key \in DOMAIN a.d : SameValue(a.d[key], b.d[key])
  ELSE a = b

\* two calls returned the same: the same list of errors, the same panic,
\* and they left equal destinations
Agree(a, b) ==
  /\ a.errs = b.errs
  /\ a.panic = b.panic
  /\ SameValue(StarDict(a.dst), StarDict(b.dst))

\* what the last call returned
Outcome == [dst |-> sdict, errs |-> errs, panic |-> panic]

\* the key k of a set-shaped map fails: its conversion records an error or
\* gives a value a Set refuses
FailingKey(k) ==
  LET failed(r) == r.e.errs # <<>> \/ ~Hashable(r.sval)
  IN failed(convertGoValue(<<>>, k, <<>>, NewEncoder("up")))

\* the set-shaped map v holds several keys that fail
SeveralFail(v) ==
  /\ isSetMapType(Deref(v).typ)
  /\ \E x, y \in Deref(v).m :
       /\ x # y /\ x.val /\ y.val
       /\ FailingKey(x.key) /\ FailingKey(y.key)

\* C29 as stated (determinism): every ToStarlark call on the record, the
\* destination and the cap of the last call returns what the last call
\* returned, whatever the order in which it takes the entries of a map,
\* also when a map holds several keys that fail.
C29_Deterministic ==
  op = "to" =>
    \A order \in {"up", "down"} :
      Agree(Outcome, ToStarlark(strct0, sdict0, maxErrs, order))

\* C29, amended: the same for the records in which no set-shaped map field
\* holds several keys that fail.
C29_DeterministicButFailingKeys ==
  (op = "to" /\ \A i \in 1..Len(strct0.s) : ~SeveralFail(strct0.s[i])) =>
    \A order \in {"up", "down"} :
      Agree(Outcome, ToStarlark(strct0, sdict0, maxErrs, order))

\* C29 happens: ToStarlark encoded a record whose map S holds two keys and
\* whose maps M and K hold one key each that fails, and returned the
\* errors of both.
C29_Witness ==
  /\ op = "to" /\ panic = "" /\ strct0.typ.name = "Keys"
  /\ Cardinality(strct0.s[2].m) = 1
  /\ Cardinality(strct0.s[3].m) = 2
  /\ Cardinality(strct0.s[4].m) = 1
  /\ Len(errs) = 2
  /\ <<"S">> \in DOMAIN sdict /\ Len(sdict[<<"S">>].s) = 2

(***************************************************************************)
(* Decoding twice.  The second call is given the dictionary of the first   *)
(* and the record the first left, in the same build (the same conversion   *)
(* of a float that an integer type cannot hold).                           *)
(***************************************************************************)
\* FromStarlark on the record and the dictionary the caller holds now
\* changes nothing in the record and returns the errors of the last call
Repeats(conv) ==
  LET same(r) == r.val.s[1] = strct /\ r.errs = errs /\ r.panic = panic
  IN same(FromStarlark(sdict, GoPtr(strct), maxErrs, conv))

\* the last call was made in the build conv: that build gives what the
\* call returned
BuiltWith(conv) ==
  LET same(r) == r.val.s[1] = strct /\ r.errs = errs /\ r.panic = panic
  IN same(FromStarlark(sdict0, GoPtr(strct0), maxErrs, conv))

\* C30 (Decode is idempotent): after a FromStarlark call, a second
\* FromStarlark call with the same dictionary into the record the first
\* left changes nothing in the record and returns the same errors.
C30_DecodeIdempotent ==
  op = "from" =>
    \A conv \in {"wrap", "sat"} : BuiltWith(conv) => Repeats(conv)

\* C30 happens: FromStarlark replaced a slice of three elements by other
\* elements and changed a map that held entries.
C30_Witness ==
  /\ op = "from" /\ panic = "" /\ strct0.typ.name = "Seq"
  /\ Len(strct0.s[4].s) = 3 /\ strct.s[4] # strct0.s[4]
  /\ strct0.s[7].m # {} /\ strct.s[7].m # strct0.s[7].m

====
